---- MODULE Spec2Model ----
(***************************************************************************)
(* A model of the APIM policy update action: the path grammar and content  *)
(* validator of utils.ts, the client wrapper of azure-client.ts, the       *)
(* aggregate validator of policy-discovery.ts and the orchestrator run()   *)
(* of main.ts.                                                             *)
(*                                                                         *)
(* Text that the code inspects character by character (file paths, policy  *)
(* content) is a sequence of one-character strings.  Identifiers, tokens   *)
(* and messages that the code only copies or tests for emptiness are TLA+  *)
(* strings.  A JavaScript object is a record; an optional property that is *)
(* not set is a field that the record does not have.                       *)
(***************************************************************************)
EXTENDS Integers, Sequences, FiniteSets, TLC

(***************************************************************************)
(* Bounds of the model.                                                    *)
(***************************************************************************)
\* The longest document list that discovery hands to run().
MaxDocs == 2

\* The number of directory segments in front of the file name of a path.
MaxDirs == 3

\* The number of pieces a document text is put together from.
MaxPieces == 3

\* The longest document list handed to the aggregate validator alone.
MaxListed == 3

\* The number of files the enumeration of policies/**/*.xml yields.
MaxFiles == 2

\* The number of API entries of a manifest, and the number of policy paths
\* (API-level and operation-level together) a manifest names.
MaxEntries == 2
MaxItems == 3

(***************************************************************************)
(* Text helpers (String.prototype.trim / startsWith / endsWith / includes  *)
(* and the pieces the regular expressions of utils.ts are made of).        *)
(***************************************************************************)
WhiteSpace == {" ", "\t", "\n", "\r"}

IsSep(c) == c \in {"/", "\\"}

\* s.substring(i - 1): the suffix of s that starts at position i.
From(s, i) == SubSeq(s, i, Len(s))

\* The literal lit occurs in s at position i.
LitAt(s, i, lit) ==
    /\ i >= 1
    /\ i + Len(lit) - 1 <= Len(s)
    /\ SubSeq(s, i, i + Len(lit) - 1) = lit

Includes(s, lit) == \E i \in 1..(Len(s) + 1) : LitAt(s, i, lit)

StartsWith(s, lit) == LitAt(s, 1, lit)

EndsWith(s, lit) == LitAt(s, Len(s) - Len(lit) + 1, lit)

Trim(s) ==
    LET keep == {i \in 1..Len(s) : s[i] \notin WhiteSpace}
        Min(S) == CHOOSE m \in S : \A n \in S : m <= n
        Max(S) == CHOOSE m \in S : \A n \in S : m >= n
    IN  IF keep = {} THEN <<>> ELSE SubSeq(s, Min(keep), Max(keep))

\* Literals of the path grammar and of the content check.
LitPolicies == <<"p", "o", "l", "i", "c", "i", "e", "s">>
LitOperations == <<"o", "p", "e", "r", "a", "t", "i", "o", "n", "s">>
LitApiXml == <<"a", "p", "i", ".", "x", "m", "l">>
LitDotXml == <<".", "x", "m", "l">>
LitOpenTag == <<"<">> \o LitPolicies \o <<">">>
LitCloseTag == <<"<", "/">> \o LitPolicies \o <<">">>

\* null, the "no match" value of the extractors (never a sequence of
\* characters the grammar can capture: a capture is non-empty and its
\* elements are single characters).
Null == <<"null">>

(***************************************************************************)
(* utils.ts: the content validator.                                        *)
(***************************************************************************)
\* A validator that forgets to trim before it looks at the first and the
\* last character.
validateXmlContentUntrimmed(content) ==
    IF content = <<>> \/ Len(Trim(content)) = 0 THEN FALSE
    ELSE IF ~StartsWith(content, <<"<">>) \/ ~EndsWith(content, <<">">>)
         THEN FALSE
    ELSE IF ~Includes(content, LitOpenTag) \/ ~Includes(content, LitCloseTag)
         THEN FALSE
    ELSE TRUE

validateXmlContent(content) ==
    LET trimmed == Trim(content)
    IN  IF content = <<>> \/ Len(trimmed) = 0 THEN FALSE
        ELSE IF ~StartsWith(trimmed, <<"<">>) \/ ~EndsWith(trimmed, <<">">>)
             THEN FALSE
        ELSE IF ~Includes(trimmed, LitOpenTag) \/ ~Includes(trimmed, LitCloseTag)
             THEN FALSE
        ELSE TRUE

(***************************************************************************)
(* utils.ts: the path grammar.  Each regular expression is matched the way *)
(* String.prototype.match does it: the leftmost start position that admits *)
(* a match wins, and [^/\\]+ takes the whole run of non-separators.        *)
(***************************************************************************)
\* The end of the run of non-separator characters that starts at i
\* (i - 1 when s[i] is a separator or i is past the end).
SegEnd(s, i) ==
    LET stops == {j \in i..Len(s) : IsSep(s[j])}
    IN  IF stops = {} THEN Len(s)
        ELSE (CHOOSE j \in stops : \A k \in stops : j <= k) - 1

\* policies[/\\]([^/\\]+)[/\\] matches at start position i.
ApiIdMatchAt(s, i) ==
    /\ LitAt(s, i, LitPolicies)
    /\ i + 8 <= Len(s) /\ IsSep(s[i + 8])
    /\ SegEnd(s, i + 9) >= i + 9
    /\ SegEnd(s, i + 9) + 1 <= Len(s)

extractApiIdFromPath(filePath) ==
    LET starts == {i \in 1..Len(filePath) : ApiIdMatchAt(filePath, i)}
    IN  IF starts = {} THEN Null
        ELSE LET i == CHOOSE m \in starts : \A n \in starts : m <= n
             IN  SubSeq(filePath, i + 9, SegEnd(filePath, i + 9))

\* policies[/\\][^/\\]+[/\\]operations[/\\]([^/\\]+)\.xml$ matches at
\* start position i; [^/\\]+\.xml$ needs a final segment of at least five
\* characters that ends in ".xml".
OperationMatchAt(s, i) ==
    LET e == SegEnd(s, i + 9)
    IN  /\ LitAt(s, i, LitPolicies)
        /\ i + 8 <= Len(s) /\ IsSep(s[i + 8])
        /\ e >= i + 9
        /\ e + 1 <= Len(s)
        /\ LitAt(s, e + 2, LitOperations)
        /\ e + 12 <= Len(s) /\ IsSep(s[e + 12])
        /\ SegEnd(s, e + 13) = Len(s)
        /\ Len(s) - (e + 13) + 1 >= 5
        /\ EndsWith(s, LitDotXml)

\* An extractor whose expression is anchored at the start of the path:
\* ^policies[/\\][^/\\]+[/\\]operations[/\\]([^/\\]+)\.xml$.
extractOperationIdFromPathAnchored(filePath) ==
    IF Len(filePath) = 0 \/ ~OperationMatchAt(filePath, 1) THEN Null
    ELSE LET e == SegEnd(filePath, 10)
         IN  SubSeq(filePath, e + 13, Len(filePath) - 4)

extractOperationIdFromPath(filePath) ==
    LET starts == {i \in 1..Len(filePath) : OperationMatchAt(filePath, i)}
    IN  IF starts = {} THEN Null
        ELSE LET i == CHOOSE m \in starts : \A n \in starts : m <= n
                 e == SegEnd(filePath, i + 9)
             IN  SubSeq(filePath, e + 13, Len(filePath) - 4)

\* policies[/\\][^/\\]+[/\\]api\.xml$ matches at start position i.
ApiLevelMatchAt(s, i) ==
    LET e == SegEnd(s, i + 9)
    IN  /\ LitAt(s, i, LitPolicies)
        /\ i + 8 <= Len(s) /\ IsSep(s[i + 8])
        /\ e >= i + 9
        /\ e + 1 <= Len(s)
        /\ From(s, e + 2) = LitApiXml

\* A classifier whose expression lets any text stand between the policies
\* directory and the file: policies[/\\].+[/\\]api\.xml$.
isApiLevelPolicyAnyDepth(filePath) ==
    \E i \in 1..Len(filePath) :
        /\ LitAt(filePath, i, LitPolicies)
        /\ i + 8 <= Len(filePath) /\ IsSep(filePath[i + 8])
        /\ \E j \in (i + 10)..Len(filePath) :
              IsSep(filePath[j]) /\ From(filePath, j + 1) = LitApiXml

isApiLevelPolicy(filePath) ==
    \E i \in 1..Len(filePath) : ApiLevelMatchAt(filePath, i)

\* A classifier whose expression lost the literal "operations" directory:
\* it also accepts the API-level shape.
isOperationLevelPolicyLoose(filePath) ==
    \E i \in 1..Len(filePath) :
        OperationMatchAt(filePath, i) \/ ApiLevelMatchAt(filePath, i)

isOperationLevelPolicy(filePath) ==
    \E i \in 1..Len(filePath) : OperationMatchAt(filePath, i)

(***************************************************************************)
(* Values of the remote service and of the documents.                      *)
(***************************************************************************)
ApiIds == {"api1", "api2", "api3", "api4"}
OperationIds == {"op1", "op2"}

\* Two policy bodies that pass the content validator.
PolicyXmlA == LitOpenTag \o LitCloseTag
PolicyXmlB == LitOpenTag \o <<" ">> \o LitCloseTag
PolicyContents == {PolicyXmlA, PolicyXmlB}

\* The body an API or operation has before any write of the run.
NoPolicy == <<>>

\* A message is the sequence of the pieces its template is built from.
Msg(text) == <<text>>

Truthy(text) == text # ""

\* Array.prototype.join(', ') as a sequence of pieces.
RECURSIVE Join(_)
Join(ids) ==
    IF Len(ids) = 0 THEN <<>>
    ELSE IF Len(ids) = 1 THEN ids
    ELSE <<Head(ids), ", ">> \o Join(Tail(ids))

Includes1(ids, id) == \E k \in 1..Len(ids) : ids[k] = id

\* What the service answers to a createOrUpdate that succeeds.
Responses ==
    { [name |-> "policy"],
      [name |-> "policy", eTag |-> ""],
      [name |-> "policy", eTag |-> "e1"],
      [name |-> "policy", eTag |-> "e2"] }

\* What a call can raise: Error instances (isError), with or without a
\* transport response, and values that are not Error instances.
RaisedValues ==
    { [isError |-> TRUE, message |-> "own"],
      [isError |-> TRUE, message |-> ""],
      [isError |-> TRUE, message |-> "own", response |-> [status |-> "500"]],
      [isError |-> TRUE, message |-> "own",
       response |-> [data |-> [error |-> [message |-> "nested"],
                               message |-> "top"]]],
      [isError |-> TRUE, message |-> "own",
       response |-> [data |-> [error |-> [message |-> ""],
                               message |-> "top"]]],
      [isError |-> TRUE, message |-> "own",
       response |-> [data |-> [error |-> [code |-> "Conflict"]]]],
      [isError |-> TRUE, message |-> "own",
       response |-> [data |-> [message |-> "top"]]],
      [isError |-> FALSE],
      [isError |-> FALSE, message |-> "own",
       response |-> [data |-> [error |-> [message |-> "nested"]]]] }

WriteOutcomes ==
    [kind : {"ok"}, response : Responses]
        \cup [kind : {"raise"}, error : RaisedValues]

\* What the code's catch blocks are there for besides a failing write.
Faults ==
    { [isError |-> TRUE, message |-> "boom"], [isError |-> FALSE] }

OkWrite == [kind |-> "ok", response |-> [name |-> "policy"]]

\* What the environment decides during one update call: whether a
\* listing fails internally, how the write ends, and whether an exception
\* is raised inside the try block ("inTry") or leaves the call
\* ("escapes").  A component that the call never gets to look at is fixed.
EnvsOver(writes, caught, escaping) ==
    [listApisFails : {FALSE}, listOpsFails : {FALSE},
     write : writes, fault : {"none"}]
        \cup [listApisFails : {TRUE}, listOpsFails : {FALSE},
              write : {OkWrite}, fault : {"none"}]
        \cup [listApisFails : {FALSE}, listOpsFails : {TRUE},
              write : {OkWrite}, fault : {"none"}]
        \cup [listApisFails : {FALSE}, listOpsFails : {FALSE},
              write : {OkWrite}, fault : {"inTry"}, raised : caught]
        \cup [listApisFails : {FALSE}, listOpsFails : {FALSE},
              write : {OkWrite}, fault : {"escapes"}, raised : escaping]

\* Every outcome, for a call of the client on its own.
UpdateEnvs == EnvsOver(WriteOutcomes, RaisedValues, Faults)

\* One outcome of each kind, for the calls of a whole run: a write that
\* returns no token, one of two tokens, or raises; an exception inside the
\* try block; an exception that leaves the call and is or is not an Error.
LoopWriteOutcomes ==
    { w \in WriteOutcomes :
        \/ w.kind = "ok" /\ w.response # [name |-> "policy", eTag |-> ""]
        \/ w.kind = "raise"
             /\ w.error = [isError |-> TRUE, message |-> "own",
                           response |-> [data |-> [message |-> "top"]]] }

LoopEnvs ==
    EnvsOver(LoopWriteOutcomes, {[isError |-> TRUE, message |-> "boom"]},
             Faults)

(***************************************************************************)
(* The state: the remote service, the collaborators' call trace and the    *)
(* locals of run().                                                        *)
(***************************************************************************)
VARIABLES
    remoteApis,       \* the API names the service lists, in listing order
    remoteOps,        \* per API, the operation names the service lists
    remotePolicy,     \* the policy body the service holds per target
    pc,               \* where run() is
    config,           \* const config = parseInputs()
    policies,         \* const policies = await discoverPolicies(...)
    idx,              \* the position of the for..of loop in policies
    lastETag,         \* let lastETag
    results,          \* what each iteration of the loop ended with
    calls,            \* every collaborator call made so far, in order
    outputs,          \* the values of core.setOutput('etag', ...)
    failures,         \* the messages of core.setFailed(...)
    log,              \* the core.warning / core.error lines of run()
    path,             \* a file path handed to the path grammar
    pathOut,          \* what the four path functions answer for it
    text,             \* a document text handed to the content validator
    textOut,          \* what validateXmlContent answers for it
    disk              \* what glob, fs.readFile and parseYaml will answer

vars ==
    << remoteApis, remoteOps, remotePolicy, pc, config, policies, idx,
       lastETag, results, calls, outputs, failures, log, path, pathOut,
       text, textOut, disk >>

runVars ==
    << remoteApis, remoteOps, remotePolicy, pc, config, policies, idx,
       lastETag, results, calls, outputs, failures, log >>

\* The variables of the specifications of single functions and of discovery.
unitVars == << path, pathOut, text, textOut, disk >>

(***************************************************************************)
(* azure-client.ts.  Each operation yields the value it returns, the calls *)
(* it made on the way (in order) and, for a write that succeeded, the      *)
(* target whose body is replaced.                                          *)
(***************************************************************************)
\* error instanceof Error ? error.message : 'Unknown error'
ErrorMessageOf(error) ==
    IF error.isError THEN error.message ELSE "Unknown error"

listApis(fails) ==
    LET apiIds == IF fails THEN <<>>
                  ELSE SelectSeq(remoteApis, LAMBDA name : Truthy(name))
    IN  [ value |-> apiIds,
          calls |-> << [op |-> "listApis", returned |-> apiIds] >> ]

listOperations(apiId, fails) ==
    LET operationIds ==
            IF fails THEN <<>>
            ELSE SelectSeq(remoteOps[apiId], LAMBDA name : Truthy(name))
    IN  [ value |-> operationIds,
          calls |-> << [op |-> "listOperations", apiId |-> apiId,
                        returned |-> operationIds] >> ]

\* A catch block that reports the raised error's own message and never
\* looks at the response payload.
ExtractWriteErrorOwnOnly(error) ==
    IF ~error.isError THEN "Unknown error" ELSE error.message

\* The catch block shared by the two direct updates.
ExtractWriteError(error) ==
    IF ~error.isError THEN "Unknown error"
    ELSE IF /\ "response" \in DOMAIN error
            /\ "data" \in DOMAIN error.response
         THEN LET data == error.response.data
              IN  IF /\ "error" \in DOMAIN data
                     /\ "message" \in DOMAIN data.error
                     /\ Truthy(data.error.message)
                  THEN data.error.message
                  ELSE IF "message" \in DOMAIN data /\ Truthy(data.message)
                  THEN data.message
                  ELSE error.message
         ELSE error.message

\* result.eTag || ''
ETagOf(response) ==
    IF "eTag" \in DOMAIN response /\ Truthy(response.eTag)
    THEN response.eTag ELSE ""

\* A direct update that copies result.eTag without the '' default.
updateApiPolicyDirectNoDefault(apiId, policyContent, write) ==
    LET call == [op |-> "apiPolicy.createOrUpdate", apiId |-> apiId,
                 value |-> policyContent, outcome |-> write]
    IN  IF write.kind = "ok"
        THEN [ result |-> IF "eTag" \in DOMAIN write.response
                          THEN [apiId |-> apiId, updated |-> TRUE,
                                etag |-> write.response.eTag]
                          ELSE [apiId |-> apiId, updated |-> TRUE],
               calls |-> <<call>>,
               written |-> {<<apiId>>} ]
        ELSE [ result |-> [apiId |-> apiId, updated |-> FALSE,
                           error |-> Msg(ExtractWriteError(write.error))],
               calls |-> <<call>>,
               written |-> {} ]

updateApiPolicyDirect(apiId, policyContent, write) ==
    LET call == [op |-> "apiPolicy.createOrUpdate", apiId |-> apiId,
                 value |-> policyContent, outcome |-> write]
    IN  IF write.kind = "ok"
        THEN [ result |-> [apiId |-> apiId, updated |-> TRUE,
                           etag |-> ETagOf(write.response)],
               calls |-> <<call>>,
               written |-> {<<apiId>>} ]
        ELSE [ result |-> [apiId |-> apiId, updated |-> FALSE,
                           error |-> Msg(ExtractWriteError(write.error))],
               calls |-> <<call>>,
               written |-> {} ]

updateOperationPolicyDirect(apiId, operationId, policyContent, write) ==
    LET call == [op |-> "apiOperationPolicy.createOrUpdate", apiId |-> apiId,
                 operationId |-> operationId, value |-> policyContent,
                 outcome |-> write]
    IN  IF write.kind = "ok"
        THEN [ result |-> [apiId |-> apiId, operationId |-> operationId,
                           updated |-> TRUE,
                           etag |-> ETagOf(write.response)],
               calls |-> <<call>>,
               written |-> {<<apiId, operationId>>} ]
        ELSE [ result |-> [apiId |-> apiId, operationId |-> operationId,
                           updated |-> FALSE,
                           error |-> Msg(ExtractWriteError(write.error))],
               calls |-> <<call>>,
               written |-> {} ]

\* `API '${apiId}' not found. Available APIs: ${apis.join(', ')}`
ApiNotFound(apiId, apis) ==
    <<"API '", apiId, "' not found. Available APIs: ">> \o Join(apis)

\* `Operation '${operationId}' not found in API '${apiId}'. Available
\* operations: ${operations.join(', ')}`
OperationNotFound(apiId, operationId, operations) ==
    <<"Operation '", operationId, "' not found in API '", apiId,
      "'. Available operations: ">> \o Join(operations)

\* An update that writes without looking at the API listing.
updateApiPolicyUnguarded(apiId, newPolicyContent, env) ==
    LET apis == listApis(env.listApisFails)
        direct == updateApiPolicyDirect(apiId, newPolicyContent, env.write)
    IN  [direct EXCEPT !.calls = apis.calls \o @]

updateApiPolicy(apiId, newPolicyContent, env) ==
    IF env.fault = "inTry"
    THEN [ result |-> [apiId |-> apiId, updated |-> FALSE,
                       error |-> Msg(ErrorMessageOf(env.raised))],
           calls |-> <<>>,
           written |-> {} ]
    ELSE LET apis == listApis(env.listApisFails)
         IN  IF ~Includes1(apis.value, apiId)
             THEN [ result |-> [apiId |-> apiId, updated |-> FALSE,
                                error |-> ApiNotFound(apiId, apis.value)],
                    calls |-> apis.calls,
                    written |-> {} ]
             ELSE LET direct == updateApiPolicyDirect(apiId, newPolicyContent,
                                                      env.write)
                  IN  [direct EXCEPT !.calls = apis.calls \o @]

\* An update that asks for the operations before it asks for the APIs and
\* so reports a missing operation for an API that does not exist.
updateOperationPolicyOpsFirst(apiId, operationId, newPolicyContent, env) ==
    LET operations == listOperations(apiId, env.listOpsFails)
        apis == listApis(env.listApisFails)
    IN  IF ~Includes1(operations.value, operationId)
        THEN [ result |-> [apiId |-> apiId, operationId |-> operationId,
                           updated |-> FALSE,
                           error |-> OperationNotFound(apiId, operationId,
                                                       operations.value)],
               calls |-> operations.calls,
               written |-> {} ]
        ELSE IF ~Includes1(apis.value, apiId)
        THEN [ result |-> [apiId |-> apiId, operationId |-> operationId,
                           updated |-> FALSE,
                           error |-> ApiNotFound(apiId, apis.value)],
               calls |-> operations.calls \o apis.calls,
               written |-> {} ]
        ELSE LET direct == updateOperationPolicyDirect(
                               apiId, operationId, newPolicyContent, env.write)
             IN  [direct EXCEPT
                     !.calls = operations.calls \o apis.calls \o @]

\* An update that takes an empty operation listing for a listing that
\* could not be obtained, and writes.
updateOperationPolicyLenient(apiId, operationId, newPolicyContent, env) ==
    IF env.fault = "inTry"
    THEN [ result |-> [apiId |-> apiId, operationId |-> operationId,
                       updated |-> FALSE,
                       error |-> Msg(ErrorMessageOf(env.raised))],
           calls |-> <<>>,
           written |-> {} ]
    ELSE LET apis == listApis(env.listApisFails)
         IN  IF ~Includes1(apis.value, apiId)
             THEN [ result |-> [apiId |-> apiId, operationId |-> operationId,
                                updated |-> FALSE,
                                error |-> ApiNotFound(apiId, apis.value)],
                    calls |-> apis.calls,
                    written |-> {} ]
             ELSE LET operations == listOperations(apiId, env.listOpsFails)
                  IN  IF /\ ~Includes1(operations.value, operationId)
                         /\ operations.value # <<>>
                      THEN [ result |->
                                 [apiId |-> apiId,
                                  operationId |-> operationId,
                                  updated |-> FALSE,
                                  error |-> OperationNotFound(
                                      apiId, operationId, operations.value)],
                             calls |-> apis.calls \o operations.calls,
                             written |-> {} ]
                      ELSE LET direct == updateOperationPolicyDirect(
                                   apiId, operationId, newPolicyContent,
                                   env.write)
                           IN  [direct EXCEPT
                                   !.calls = apis.calls \o operations.calls
                                                 \o @]

updateOperationPolicy(apiId, operationId, newPolicyContent, env) ==
    IF env.fault = "inTry"
    THEN [ result |-> [apiId |-> apiId, operationId |-> operationId,
                       updated |-> FALSE,
                       error |-> Msg(ErrorMessageOf(env.raised))],
           calls |-> <<>>,
           written |-> {} ]
    ELSE LET apis == listApis(env.listApisFails)
         IN  IF ~Includes1(apis.value, apiId)
             THEN [ result |-> [apiId |-> apiId, operationId |-> operationId,
                                updated |-> FALSE,
                                error |-> ApiNotFound(apiId, apis.value)],
                    calls |-> apis.calls,
                    written |-> {} ]
             ELSE LET operations == listOperations(apiId, env.listOpsFails)
                  IN  IF ~Includes1(operations.value, operationId)
                      THEN [ result |->
                                 [apiId |-> apiId,
                                  operationId |-> operationId,
                                  updated |-> FALSE,
                                  error |-> OperationNotFound(
                                      apiId, operationId, operations.value)],
                             calls |-> apis.calls \o operations.calls,
                             written |-> {} ]
                      ELSE LET direct == updateOperationPolicyDirect(
                                   apiId, operationId, newPolicyContent,
                                   env.write)
                           IN  [direct EXCEPT
                                   !.calls = apis.calls \o operations.calls
                                                 \o @]

(***************************************************************************)
(* policy-discovery.ts: the aggregate validator.                           *)
(***************************************************************************)
\* The Map apiCounts after the first loop.
ApiCounts(docs) ==
    [ apiId \in {docs[k].apiId : k \in 1..Len(docs)} |->
        [ api |-> Cardinality({k \in 1..Len(docs) :
                      docs[k].apiId = apiId /\ docs[k].scope = "api"}),
          operations |-> Cardinality({k \in 1..Len(docs) :
                      docs[k].apiId = apiId /\ docs[k].scope # "api"}) ] ]

\* A validator that also takes offence at a second operation-level
\* document of an API.
validatePoliciesOneOperation(docs) ==
    IF Len(docs) = 0 THEN FALSE
    ELSE /\ \A k \in 1..Len(docs) : validateXmlContent(docs[k].content)
         /\ \A apiId \in DOMAIN ApiCounts(docs) :
                /\ ~(ApiCounts(docs)[apiId].api > 1)
                /\ ~(ApiCounts(docs)[apiId].operations > 1)

\* A validator that takes offence at two documents of one target, of
\* either scope.
validatePoliciesDistinctTargets(docs) ==
    IF Len(docs) = 0 THEN FALSE
    ELSE /\ \A k \in 1..Len(docs) : validateXmlContent(docs[k].content)
         /\ \A i, j \in 1..Len(docs) :
                (i # j /\ docs[i].apiId = docs[j].apiId
                       /\ docs[i].scope = docs[j].scope)
                    => /\ docs[i].scope = "operation"
                       /\ docs[i].operationId # docs[j].operationId

validatePolicies(docs) ==
    IF Len(docs) = 0 THEN FALSE
    ELSE /\ \A k \in 1..Len(docs) : validateXmlContent(docs[k].content)
         /\ \A apiId \in DOMAIN ApiCounts(docs) :
                ~(ApiCounts(docs)[apiId].api > 1)

\* The keys of apiCounts in the order a Map keeps them: by first insertion.
RECURSIVE ApiOrder(_)
ApiOrder(docs) ==
    IF Len(docs) = 0 THEN <<>>
    ELSE LET before == ApiOrder(SubSeq(docs, 1, Len(docs) - 1))
             apiId == docs[Len(docs)].apiId
         IN  IF \E k \in 1..Len(before) : before[k] = apiId
             THEN before ELSE Append(before, apiId)

\* The lines of the first loop: one core.error per invalid content.
RECURSIVE ContentReports(_)
ContentReports(docs) ==
    IF Len(docs) = 0 THEN <<>>
    ELSE (IF ~validateXmlContent(Head(docs).content)
          THEN <<[level |-> "error",
                  text |-> <<"Invalid XML content in policy: ">>,
                  about |-> Head(docs).filePath]>>
          ELSE <<>>) \o ContentReports(Tail(docs))

\* The lines of the second loop: the summary of each API and, after it,
\* the warning about its API policies.
RECURSIVE SummaryReports(_, _)
SummaryReports(apiIds, docs) ==
    IF Len(apiIds) = 0 THEN <<>>
    ELSE LET apiId == Head(apiIds)
             counts == ApiCounts(docs)[apiId]
         IN  <<[level |-> "info", text |-> <<"API ">>, about |-> apiId,
                api |-> counts.api, operations |-> counts.operations]>>
             \o (IF counts.api > 1
                 THEN <<[level |-> "warning",
                         text |-> <<"Multiple API policies found for ">>,
                         about |-> apiId]>>
                 ELSE <<>>)
             \o SummaryReports(Tail(apiIds), docs)

\* A validator that returns at the first violation it meets.
validationReportShortCircuit(docs) ==
    IF Len(docs) = 0
    THEN <<[level |-> "warning", text |-> <<"No policy files discovered">>,
            about |-> <<>>]>>
    ELSE IF ContentReports(docs) # <<>>
    THEN <<Head(ContentReports(docs))>>
    ELSE SummaryReports(ApiOrder(docs), docs)

\* What validatePolicies logs, in order.
validationReport(docs) ==
    IF Len(docs) = 0
    THEN <<[level |-> "warning", text |-> <<"No policy files discovered">>,
            about |-> <<>>]>>
    ELSE ContentReports(docs) \o SummaryReports(ApiOrder(docs), docs)

(***************************************************************************)
(* What run() can be given.                                                *)
(***************************************************************************)
\* Action inputs as core.getInput returns them ('' when not supplied).
InputSets ==
    [ subscription_id : {"", "sub"}, resource_group : {"", "rg"},
      apim_name : {"", "apim"}, policy_manifest_path : {"", "manifest.yaml"} ]

\* utils.ts parseInputs: the configuration, or the Error it throws.
parseInputs(inputs) ==
    IF ~Truthy(inputs.subscription_id)
    THEN [threw |-> TRUE,
          error |-> [isError |-> TRUE,
                     message |-> "subscription_id input is required"]]
    ELSE IF ~Truthy(inputs.resource_group)
    THEN [threw |-> TRUE,
          error |-> [isError |-> TRUE,
                     message |-> "resource_group input is required"]]
    ELSE IF ~Truthy(inputs.apim_name)
    THEN [threw |-> TRUE,
          error |-> [isError |-> TRUE,
                     message |-> "apim_name input is required"]]
    ELSE [threw |-> FALSE,
          value |-> IF Truthy(inputs.policy_manifest_path)
                    THEN [subscriptionId |-> inputs.subscription_id,
                          resourceGroupName |-> inputs.resource_group,
                          serviceName |-> inputs.apim_name,
                          policyManifestPath |-> inputs.policy_manifest_path]
                    ELSE [subscriptionId |-> inputs.subscription_id,
                          resourceGroupName |-> inputs.resource_group,
                          serviceName |-> inputs.apim_name]]

\* The file a document was read from: provenance only.
FileOf(content) == IF content = PolicyXmlA THEN "a.xml" ELSE "b.xml"

\* The documents discovery can hand over: every one passed the content
\* validator; an apiId may occur in several API-level documents.
DocSet ==
    { [filePath |-> <<"/repo", t[1], FileOf(t[2])>>, apiId |-> t[1],
       scope |-> "api", content |-> t[2]] :
         t \in { <<"api1", PolicyXmlA>>, <<"api1", PolicyXmlB>> } }
    \cup
    { [filePath |-> <<"/repo", t[1], t[2], FileOf(t[3])>>, apiId |-> t[1],
       operationId |-> t[2], scope |-> "operation", content |-> t[3]] :
         t \in { <<"api1", "op1", PolicyXmlA>>,
                 <<"api1", "op1", PolicyXmlB>> } }

DocLists == UNION { [1..n -> DocSet] : n \in 0..MaxDocs }

\* The states of the remote service at the start of a run.
NoOps == [apiId \in ApiIds |-> <<>>]

RemoteConfigs ==
    { [apis |-> <<"api2">>, ops |-> [NoOps EXCEPT !["api2"] = <<"op1">>]],
      [apis |-> <<"api1">>, ops |-> [NoOps EXCEPT !["api1"] = <<"op2">>]],
      [apis |-> <<"api3", "api2", "api1", "api4">>,
       ops |-> [NoOps EXCEPT !["api1"] = <<"op2", "op1">>,
                             !["api2"] = <<"op1">>]] }

\* The states of the remote service for a call of the client on its own.
ClientRemoteConfigs ==
    { [apis |-> apis, ops |-> [NoOps EXCEPT !["api1"] = ops]] :
        apis \in { <<>>, <<"api1">>, <<"api2">>, <<"api2", "api1">>,
                   <<"api3", "api2", "api1", "api4">> },
        ops \in { <<>>, <<"op1">>, <<"op2">>, <<"op2", "op1">> } }

Targets ==
    { <<apiId>> : apiId \in ApiIds }
        \cup { <<apiId, operationId>> :
                  apiId \in ApiIds, operationId \in OperationIds }

\* availableApis.slice(0, 3)
DebugApiLimit == 3

\* The values of the path variables while no path is being classified.
NoPath == [segs |-> <<>>, seps |-> <<>>]
NoPathOut == [classified |-> FALSE]

\* The values of the content variables while no text is being validated,
\* and of the file system while discovery is not looked into.
NoText == <<>>
NoTextOut == [validated |-> FALSE]
NoDisk == [unset |-> TRUE]

(***************************************************************************)
(* main.ts: run().                                                         *)
(***************************************************************************)
InitRun ==
    /\ \E remote \in RemoteConfigs :
          /\ remoteApis = remote.apis
          /\ remoteOps = remote.ops
    /\ remotePolicy = [target \in Targets |-> NoPolicy]
    /\ pc = "start"
    /\ config = [unset |-> TRUE]
    /\ policies = <<>>
    /\ idx = 0
    /\ lastETag = ""
    /\ results = <<>>
    /\ calls = <<>>
    /\ outputs = <<>>
    /\ failures = <<>>
    /\ log = <<>>

\* An outer catch block that forgets the default output.
FailNoOutput(error) ==
    /\ failures' = Append(failures,
                          IF error.isError THEN error.message
                          ELSE "An unknown error occurred")
    /\ outputs' = outputs
    /\ pc' = "done"

\* The outer catch block of run(): mark the run failed, publish ''.
Fail(error) ==
    /\ failures' = Append(failures,
                          IF error.isError THEN error.message
                          ELSE "An unknown error occurred")
    /\ outputs' = Append(outputs, "")
    /\ pc' = "done"

\* const config = parseInputs(); new AzureApimClient(config)
ParseInputs ==
    /\ pc = "start"
    /\ calls' = Append(calls, [op |-> "parseInputs"])
    /\ \/ \E inputs \in InputSets :
             LET parsed == parseInputs(inputs)
             IN  IF parsed.threw
                 THEN Fail(parsed.error) /\ UNCHANGED config
                 ELSE /\ config' = parsed.value
                      /\ pc' = "connect"
                      /\ UNCHANGED << outputs, failures >>
       \/ \* parseInputs raises a value that is not an Error
          Fail([isError |-> FALSE]) /\ UNCHANGED config
    /\ UNCHANGED << remoteApis, remoteOps, remotePolicy, policies, idx,
                    lastETag, results, log, unitVars >>

\* A run that goes on after a failed connection test.
TestConnectionIgnored ==
    /\ pc = "connect"
    /\ \E connectionTest \in BOOLEAN :
          /\ calls' = Append(calls, [op |-> "testConnection",
                                     returned |-> connectionTest])
          /\ pc' = "list"
          /\ UNCHANGED << outputs, failures >>
    /\ UNCHANGED << remoteApis, remoteOps, remotePolicy, config, policies,
                    idx, lastETag, results, log, unitVars >>

\* const connectionTest = await client.testConnection()
TestConnection ==
    /\ pc = "connect"
    /\ \E connectionTest \in BOOLEAN :
          /\ calls' = Append(calls, [op |-> "testConnection",
                                     returned |-> connectionTest])
          /\ IF ~connectionTest
             THEN Fail([isError |-> TRUE,
                        message |->
                          "Failed to connect to Azure API Management service"])
             ELSE /\ pc' = "list"
                  /\ UNCHANGED << outputs, failures >>
    /\ UNCHANGED << remoteApis, remoteOps, remotePolicy, config, policies,
                    idx, lastETag, results, log, unitVars >>

\* The calls of the loop over availableApis.slice(0, 3).
RECURSIVE ListOperationsOf(_, _)
ListOperationsOf(apis, fails) ==
    IF Len(apis) = 0 THEN <<>>
    ELSE listOperations(Head(apis), fails).calls
             \o ListOperationsOf(Tail(apis), fails)

\* The listing of the available APIs and operations for the log.
ListAvailable ==
    /\ pc = "list"
    /\ \E apisFail \in BOOLEAN, opsFail \in BOOLEAN :
          LET availableApis == listApis(apisFail)
              shown == SubSeq(availableApis.value, 1,
                              IF Len(availableApis.value) < DebugApiLimit
                              THEN Len(availableApis.value)
                              ELSE DebugApiLimit)
          IN  IF Len(availableApis.value) > 0
              THEN /\ calls' = calls \o availableApis.calls
                                     \o ListOperationsOf(shown, opsFail)
                   /\ log' = log
              ELSE /\ calls' = calls \o availableApis.calls
                   /\ log' = Append(log,
                          [level |-> "warning",
                           text |-> <<"No APIs found in APIM service">>])
    /\ pc' = "discover"
    /\ UNCHANGED << remoteApis, remoteOps, remotePolicy, config, policies,
                    idx, lastETag, results, outputs, failures, unitVars >>

\* What discoverPolicies can end with, as run() sees it.
DiscoveryFaults ==
    { [isError |-> TRUE, message |-> "Failed to discover policies"],
      [isError |-> FALSE] }

DiscoverCall(threw) ==
    IF "policyManifestPath" \in DOMAIN config
    THEN [op |-> "discoverPolicies", threw |-> threw,
          manifestPath |-> config.policyManifestPath]
    ELSE [op |-> "discoverPolicies", threw |-> threw]

\* A run without the early return on an empty list: the empty list goes
\* on to the aggregate validator.
DiscoverPoliciesNoEarlyReturn ==
    /\ pc = "discover"
    /\ \/ \E error \in DiscoveryFaults :
             /\ calls' = Append(calls, DiscoverCall(TRUE))
             /\ Fail(error)
             /\ UNCHANGED << policies, log >>
       \/ \E docs \in DocLists :
             /\ calls' = Append(calls, DiscoverCall(FALSE))
             /\ policies' = docs
             /\ pc' = "validate"
             /\ UNCHANGED << outputs, failures, log >>
    /\ UNCHANGED << remoteApis, remoteOps, remotePolicy, config, idx,
                    lastETag, results, unitVars >>

\* const policies = await discoverPolicies(config.policyManifestPath)
DiscoverPolicies ==
    /\ pc = "discover"
    /\ \/ \E error \in DiscoveryFaults :
             /\ calls' = Append(calls, DiscoverCall(TRUE))
             /\ Fail(error)
             /\ UNCHANGED << policies, log >>
       \/ \E docs \in DocLists :
             /\ calls' = Append(calls, DiscoverCall(FALSE))
             /\ policies' = docs
             /\ IF Len(docs) = 0
                THEN /\ log' = Append(log,
                            [level |-> "warning",
                             text |-> <<"No policy files found to update">>])
                     /\ outputs' = Append(outputs, "")
                     /\ pc' = "done"
                     /\ UNCHANGED failures
                ELSE /\ pc' = "validate"
                     /\ UNCHANGED << outputs, failures, log >>
    /\ UNCHANGED << remoteApis, remoteOps, remotePolicy, config, idx,
                    lastETag, results, unitVars >>

\* A run that starts the loop whatever the validator answered.
ValidateDiscoveredIgnored ==
    /\ pc = "validate"
    /\ calls' = Append(calls, [op |-> "validatePolicies",
                               returned |-> validatePolicies(policies)])
    /\ pc' = "update"
    /\ idx' = 1
    /\ lastETag' = ""
    /\ UNCHANGED << outputs, failures >>
    /\ UNCHANGED << remoteApis, remoteOps, remotePolicy, config, policies,
                    results, log, unitVars >>

\* const isValid = validatePolicies(policies); let lastETag = ''
ValidateDiscovered ==
    /\ pc = "validate"
    /\ calls' = Append(calls, [op |-> "validatePolicies",
                               returned |-> validatePolicies(policies)])
    /\ IF ~validatePolicies(policies)
       THEN /\ Fail([isError |-> TRUE,
                     message |-> "Policy validation failed"])
            /\ UNCHANGED << idx, lastETag >>
       ELSE /\ pc' = "update"
            /\ idx' = 1
            /\ lastETag' = ""
            /\ UNCHANGED << outputs, failures >>
    /\ UNCHANGED << remoteApis, remoteOps, remotePolicy, config, policies,
                    results, log, unitVars >>

\* The client call of one iteration.
UpdateCall(policy) ==
    IF policy.scope = "api"
    THEN [op |-> "updateApiPolicy", apiId |-> policy.apiId,
          content |-> policy.content]
    ELSE [op |-> "updateOperationPolicy", apiId |-> policy.apiId,
          operationId |-> policy.operationId, content |-> policy.content]

\* A client call that issues the write a second time when the first
\* attempt did not update.
ClientUpdateRetry(policy, env) ==
    LET update == IF policy.scope = "api"
                  THEN updateApiPolicy(policy.apiId, policy.content, env)
                  ELSE updateOperationPolicy(policy.apiId, policy.operationId,
                                             policy.content, env)
        n == Len(update.calls)
    IN  IF /\ ~update.result.updated
           /\ n >= 1
           /\ update.calls[n].op \in {"apiPolicy.createOrUpdate",
                                      "apiOperationPolicy.createOrUpdate"}
        THEN [update EXCEPT !.calls = @ \o <<update.calls[n]>>]
        ELSE update

\* What the client answers for one document.
ClientUpdate(policy, env) ==
    IF policy.scope = "api"
    THEN updateApiPolicy(policy.apiId, policy.content, env)
    ELSE updateOperationPolicy(policy.apiId, policy.operationId,
                               policy.content, env)

\* A loop in which a result that is not an update clears the token.
NextETagCleared(etag, result) ==
    IF result.updated
    THEN IF "etag" \in DOMAIN result /\ Truthy(result.etag)
         THEN result.etag ELSE etag
    ELSE ""

\* lastETag = result.etag on every successful result, empty token or not.
NextETagAlways(etag, result) ==
    IF result.updated THEN result.etag ELSE etag

\* if (result.updated) { if (result.etag) { lastETag = result.etag } }
NextETag(etag, result) ==
    IF result.updated
    THEN IF "etag" \in DOMAIN result /\ Truthy(result.etag)
         THEN result.etag ELSE etag
    ELSE etag

\* The end of one iteration: the next document, or the end of the loop
\* with core.setOutput('etag', lastETag).
EndIteration(etag) ==
    /\ idx' = idx + 1
    /\ lastETag' = etag
    /\ IF idx = Len(policies)
       THEN /\ outputs' = Append(outputs, etag)
            /\ pc' = "done"
       ELSE /\ outputs' = outputs
            /\ pc' = pc

\* One iteration whose client call returns a result.
UpdateReturns ==
    /\ pc = "update"
    /\ \E env \in LoopEnvs :
          /\ env.fault # "escapes"
          /\ LET policy == policies[idx]
                 update == ClientUpdate(policy, env)
                 result == update.result
             IN  /\ calls' = calls \o <<UpdateCall(policy)>> \o update.calls
                 /\ results' = Append(results, result)
                 /\ remotePolicy' =
                        [target \in Targets |->
                            IF target \in update.written
                            THEN policy.content ELSE remotePolicy[target]]
                 /\ log' = IF ~result.updated /\ result.error # Msg("")
                           THEN Append(log,
                                  [level |-> "error",
                                   text |-> <<"Failed to update policy">>,
                                   apiId |-> policy.apiId,
                                   error |-> result.error])
                           ELSE log
                 /\ EndIteration(NextETag(lastETag, result))
    /\ UNCHANGED << remoteApis, remoteOps, config, policies, failures,
                    unitVars >>

\* An iteration without its own catch block: the exception ends the loop
\* in the outer catch block of run().
UpdateThrowsAborts ==
    /\ pc = "update"
    /\ \E env \in LoopEnvs :
          /\ env.fault = "escapes"
          /\ calls' = Append(calls, UpdateCall(policies[idx]))
          /\ results' = Append(results, [threw |-> env.raised])
          /\ Fail(env.raised)
    /\ UNCHANGED << remoteApis, remoteOps, remotePolicy, config, policies,
                    idx, lastETag, log, unitVars >>

\* One iteration whose client call throws: the catch block of the loop.
UpdateThrows ==
    /\ pc = "update"
    /\ \E env \in LoopEnvs :
          /\ env.fault = "escapes"
          /\ LET policy == policies[idx]
             IN  /\ calls' = Append(calls, UpdateCall(policy))
                 /\ results' = Append(results, [threw |-> env.raised])
                 /\ log' = Append(log,
                             [level |-> "error",
                              text |-> <<"Error processing policy">>,
                              filePath |-> policy.filePath,
                              error |-> Msg(ErrorMessageOf(env.raised))])
                 /\ EndIteration(lastETag)
    /\ UNCHANGED << remoteApis, remoteOps, remotePolicy, config, policies,
                    failures, unitVars >>

Next ==
    \/ ParseInputs
    \/ TestConnection
    \/ ListAvailable
    \/ DiscoverPolicies
    \/ ValidateDiscovered
    \/ UpdateReturns
    \/ UpdateThrows

Init ==
    /\ InitRun
    /\ path = NoPath
    /\ pathOut = NoPathOut
    /\ text = NoText
    /\ textOut = NoTextOut
    /\ disk = NoDisk

Spec == Init /\ [][Next]_vars

(***************************************************************************)
(* The path grammar on its own: a path is put together from directory      *)
(* names, a file name and one separator per joint, and handed to the four  *)
(* functions of utils.ts.                                                  *)
(***************************************************************************)
DirNames ==
    { LitPolicies, LitOperations, <<"a">>, <<"x">> \o LitPolicies, <<>> }

FileNames ==
    { LitApiXml, <<"o">> \o LitDotXml, LitDotXml, <<"a", "p", "i", ".", "x">>,
      LitOperations }

Separators == {"/", "\\"}

\* The text of a path: its segments with its separators between them.
RECURSIVE PathText(_)
PathText(p) ==
    IF Len(p.segs) = 0 THEN <<>>
    ELSE IF Len(p.segs) = 1 THEN p.segs[1]
    ELSE p.segs[1] \o <<p.seps[1]>>
            \o PathText([segs |-> Tail(p.segs), seps |-> Tail(p.seps)])

InitIdle ==
    /\ remoteApis = <<>>
    /\ remoteOps = NoOps
    /\ remotePolicy = [target \in Targets |-> NoPolicy]
    /\ pc = "idle"
    /\ config = [unset |-> TRUE]
    /\ policies = <<>>
    /\ idx = 0
    /\ lastETag = ""
    /\ results = <<>>
    /\ calls = <<>>
    /\ outputs = <<>>
    /\ failures = <<>>
    /\ log = <<>>

PathInit ==
    /\ InitIdle
    /\ \E n \in 0..MaxDirs :
          \E dirs \in [1..n -> DirNames], file \in FileNames,
             seps \in [1..n -> Separators] :
              path = [segs |-> dirs \o <<file>>, seps |-> seps]
    /\ pathOut = NoPathOut
    /\ text = NoText
    /\ textOut = NoTextOut
    /\ disk = NoDisk

ClassifyPath ==
    /\ ~pathOut.classified
    /\ pathOut' =
          [ classified |-> TRUE,
            apiId |-> extractApiIdFromPath(PathText(path)),
            operationId |-> extractOperationIdFromPath(PathText(path)),
            isApiLevel |-> isApiLevelPolicy(PathText(path)),
            isOperationLevel |-> isOperationLevelPolicy(PathText(path)) ]
    /\ UNCHANGED << path, text, textOut, disk, runVars >>

PathNext == ClassifyPath

PathSpec == PathInit /\ [][PathNext]_vars

(***************************************************************************)
(* The content validator on its own: a text is put together from pieces    *)
(* (the two tags, other tags, angle brackets, white space, plain words) and *)
(* handed to validateXmlContent, as read and after String.prototype.trim.   *)
(***************************************************************************)
TextPieces ==
    { LitOpenTag, LitCloseTag,
      <<"<", "r", "o", "o", "t", ">">>, <<"<", "/", "r", "o", "o", "t", ">">>,
      <<"<", "i", "n", "b", "o", "u", "n", "d", "/", ">">>,
      <<"n", "o", "t", " ", "x", "m", "l">>,
      <<"<">>, <<">">>, <<"x">>, <<" ">>, <<"\n">> }

RECURSIVE Concat(_)
Concat(pieces) ==
    IF pieces = <<>> THEN <<>> ELSE Head(pieces) \o Concat(Tail(pieces))

ContentInit ==
    /\ InitIdle
    /\ path = NoPath
    /\ pathOut = NoPathOut
    /\ \E n \in 0..MaxPieces :
          \E pieces \in [1..n -> TextPieces] : text = Concat(pieces)
    /\ textOut = NoTextOut
    /\ disk = NoDisk

ValidateContent ==
    /\ ~textOut.validated
    /\ textOut' =
          [ validated |-> TRUE,
            valid |-> validateXmlContent(text),
            validTrimmed |-> validateXmlContent(Trim(text)) ]
    /\ UNCHANGED << path, pathOut, text, disk, runVars >>

ContentNext == ValidateContent

ContentSpec == ContentInit /\ [][ContentNext]_vars

(***************************************************************************)
(* policy-discovery.ts: what the file system and the YAML parser can hand  *)
(* to discovery.                                                           *)
(***************************************************************************)
\* The segments of a relative path, joined with forward slashes.
RECURSIVE Slash(_)
Slash(segs) ==
    IF Len(segs) = 1 THEN segs[1]
    ELSE segs[1] \o <<"/">> \o Slash(Tail(segs))

\* path.resolve(baseDir, p) for the default baseDir '.' and a relative p
\* without '.', '..' or empty segments: p under the working directory.
WorkDir == <<"/", "w">>
Resolve(p) == WorkDir \o <<"/">> \o p

InvalidXml == <<"n", "o", "t", " ", "x", "m", "l">>

\* What await fs.readFile(...) ends with.
ReadOutcomes ==
    { [kind |-> "ok", content |-> PolicyXmlA],
      [kind |-> "ok", content |-> InvalidXml],
      [kind |-> "raise",
       error |-> [isError |-> TRUE, message |-> "ENOENT"]] }

\* Paths the enumeration of policies/**/*.xml can yield.
CandidatePaths ==
    { Slash(<<LitPolicies, <<"a">>, LitApiXml>>),
      Slash(<<LitPolicies, <<"a">>, LitOperations, <<"o">> \o LitDotXml>>),
      Slash(<<LitPolicies, <<>>, LitApiXml>>),
      Slash(<<LitPolicies, <<"a">>, <<"o">> \o LitDotXml>>),
      Slash(<<LitPolicies, <<"a">>, LitOperations, LitDotXml>>),
      Slash(<<LitPolicies, LitPolicies, LitOperations, LitApiXml>>),
      Slash(<<LitPolicies, <<"x">> \o LitPolicies, <<"a">>, LitApiXml>>) }

Candidates == [path : CandidatePaths, read : ReadOutcomes]

\* What await glob(...) can reject with.
GlobFaults ==
    { [isError |-> TRUE, message |-> "EACCES"], [isError |-> FALSE] }

\* A policy path of a manifest: a string naming a file, with what reading
\* that file ends with, or a value path.resolve rejects (a YAML sequence).
NotAPath == [kind |-> "notAString"]
PathItems ==
    {NotAPath} \cup {[kind |-> "file", read |-> read] : read \in ReadOutcomes}

\* The path item naming the file p.
Naming(item, p) ==
    IF item.kind = "file"
    THEN [kind |-> "file", path |-> p, read |-> item.read]
    ELSE item

Digits == <<"1", "2", "3", "4", "5", "6">>
ApiKey(i) == <<"a", "p", "i", Digits[i]>>
OperationKey(j) == <<"o", "p", Digits[j]>>
ApiPolicyFile == <<"a", ".", "x", "m", "l">>
OperationFile(j) == <<"o", Digits[j], ".", "x", "m", "l">>

\* Object.entries(apiConfig.operations) for n paths.
OperationMaps(n) ==
    { [j \in 1..n |-> [operationId |-> OperationKey(j),
                        path |-> Naming(items[j], OperationFile(j))]] :
        items \in [1..n -> PathItems] }

\* The values one key of manifest.policies can have that name exactly n
\* paths: null (a key without a value) or a mapping with an optional
\* apiPolicyPath and optional operations.
NullConfig == [isNull |-> TRUE]
ApiConfigs(n) ==
    IF n = 0 THEN {NullConfig, [isNull |-> FALSE]}
    ELSE { [isNull |-> FALSE, operations |-> ops] :
             ops \in OperationMaps(n) }
         \cup (IF n = 1
               THEN { [isNull |-> FALSE,
                       apiPolicyPath |-> Naming(item, ApiPolicyFile)] :
                        item \in PathItems }
               ELSE { [isNull |-> FALSE,
                       apiPolicyPath |-> Naming(item, ApiPolicyFile),
                       operations |-> ops] :
                        item \in PathItems,
                        ops \in OperationMaps(n - 1) })

\* What loading the manifest ends with when it does not yield a manifest:
\* readFile or parseYaml throws, or parseYaml answers null or a mapping
\* without policies.
LoadFaults ==
    { [kind |-> "unreadable",
       error |-> [isError |-> TRUE, message |-> "ENOENT"]],
      [kind |-> "unparsable",
       error |-> [isError |-> TRUE, message |-> "bad indentation"]],
      [kind |-> "parsed", isNull |-> TRUE],
      [kind |-> "parsed", isNull |-> FALSE] }

\* What the strategy that is not chosen would find if it were run.
OtherGlob ==
    [kind |-> "ok",
     files |-> << [path |-> Slash(<<LitPolicies, <<"a">>, LitApiXml>>),
                   read |-> [kind |-> "ok", content |-> PolicyXmlA]] >>]
OtherLoad ==
    [kind |-> "parsed", isNull |-> FALSE,
     policies |-> << [apiId |-> ApiKey(1),
                      apiConfig |->
                          [isNull |-> FALSE,
                           apiPolicyPath |->
                               [kind |-> "file", path |-> ApiPolicyFile,
                                read |-> [kind |-> "ok",
                                          content |-> PolicyXmlA]]]] >>]

\* manifestPath is '' when the input was not supplied.
ConventionDisk(glob) ==
    [manifestPath |-> "", glob |-> glob, load |-> OtherLoad]

ManifestDisk(load) ==
    [manifestPath |-> "manifest.yaml", glob |-> OtherGlob, load |-> load]

\* The disk holds a manifest of at most n more entries that name at most
\* budget more paths.  Object.entries(manifest.policies) has distinct keys;
\* the first may be the empty string.
RECURSIVE HoldsManifest(_, _, _)
HoldsManifest(n, budget, entries) ==
    \/ disk = ManifestDisk([kind |-> "parsed", isNull |-> FALSE,
                            policies |-> entries])
    \/ /\ n > 0
       /\ \E k \in 0..budget :
             \E apiConfig \in ApiConfigs(k),
                apiId \in IF entries = <<>> THEN {<<>>, ApiKey(1)}
                          ELSE {ApiKey(Len(entries) + 1)} :
                 HoldsManifest(n - 1, budget - k,
                               Append(entries, [apiId |-> apiId,
                                                apiConfig |-> apiConfig]))

(***************************************************************************)
(* policy-discovery.ts: the convention strategy, one candidate at a time.  *)
(* Each operator yields the documents it pushes and the lines it logs.     *)
(***************************************************************************)
Warn(line, subject) ==
    [docs |-> <<>>,
     log |-> <<[level |-> "warning", text |-> <<line>>, about |-> subject]>>]

WarnError(line, subject, error) ==
    [docs |-> <<>>,
     log |-> <<[level |-> "warning", text |-> <<line>>, about |-> subject,
                error |-> ErrorMessageOf(error)]>>]

\* A loop body that pushes the document without looking at its content.
scanFileUnchecked(filePath, read) ==
    IF read.kind = "raise"
    THEN WarnError("Failed to process policy file ", filePath, read.error)
    ELSE LET apiId == extractApiIdFromPath(filePath)
         IN  IF apiId = Null \/ apiId = <<>>
             THEN Warn("Cannot extract API ID from path: ", filePath)
             ELSE [docs |-> <<[filePath |-> Resolve(filePath),
                               apiId |-> apiId, scope |-> "api",
                               content |-> read.content]>>,
                   log |-> <<>>]

\* The body of the for loop over policyFiles.
scanFile(filePath, read) ==
    IF read.kind = "raise"
    THEN WarnError("Failed to process policy file ", filePath, read.error)
    ELSE IF ~validateXmlContent(read.content)
    THEN Warn("Skipping invalid XML file: ", filePath)
    ELSE LET apiId == extractApiIdFromPath(filePath)
         IN  IF apiId = Null \/ apiId = <<>>
             THEN Warn("Cannot extract API ID from path: ", filePath)
             ELSE IF isApiLevelPolicy(filePath)
             THEN [docs |-> <<[filePath |-> Resolve(filePath),
                               apiId |-> apiId, scope |-> "api",
                               content |-> read.content]>>,
                   log |-> <<>>]
             ELSE IF isOperationLevelPolicy(filePath)
             THEN LET extractedOperationId ==
                          extractOperationIdFromPath(filePath)
                  IN  IF extractedOperationId = Null
                         \/ extractedOperationId = <<>>
                      THEN Warn("Cannot extract operation ID from path: ",
                                filePath)
                      ELSE [docs |-> <<[filePath |-> Resolve(filePath),
                                        apiId |-> apiId,
                                        operationId |-> extractedOperationId,
                                        scope |-> "operation",
                                        content |-> read.content]>>,
                            log |-> <<>>]
             ELSE Warn("Unknown policy scope for file: ", filePath)

(***************************************************************************)
(* policy-discovery.ts: the manifest strategy, one API entry at a time.    *)
(* Each operator yields the documents pushed, the lines logged, the files  *)
(* read and whether a TypeError left the try block of the entry.           *)
(***************************************************************************)
Nothing == [docs |-> <<>>, log |-> <<>>, reads |-> <<>>, threw |-> FALSE]

Thrown == [docs |-> <<>>, log |-> <<>>, reads |-> <<>>, threw |-> TRUE]

TypeError == [isError |-> TRUE, message |-> "TypeError"]

\* One readFile / validateXmlContent / push block of the manifest strategy.
readPolicy(item, doc, subject, unreadable, invalid) ==
    LET reads == <<[op |-> "readFile", file |-> item.path]>>
    IN  IF item.read.kind = "raise"
        THEN [docs |-> <<>>,
              log |-> WarnError(unreadable, subject, item.read.error).log,
              reads |-> reads, threw |-> FALSE]
        ELSE IF validateXmlContent(item.read.content)
        THEN [docs |-> <<doc>>, log |-> <<>>, reads |-> reads,
              threw |-> FALSE]
        ELSE [docs |-> <<>>, log |-> Warn(invalid, subject).log,
              reads |-> reads, threw |-> FALSE]

\* if (apiConfig.apiPolicyPath) { ... }
apiPolicyOf(apiId, apiConfig) ==
    IF apiConfig.isNull THEN Thrown
    ELSE IF "apiPolicyPath" \notin DOMAIN apiConfig THEN Nothing
    ELSE LET item == apiConfig.apiPolicyPath
         IN  IF item.kind # "file" THEN Thrown
             ELSE readPolicy(item,
                             [filePath |-> Resolve(item.path),
                              apiId |-> apiId, scope |-> "api",
                              content |-> item.read.content],
                             <<apiId>>,
                             "Failed to read API policy for ",
                             "Invalid XML content in API policy for ")

\* for (const [operationId, operationPath] of Object.entries(...)) { ... }
RECURSIVE operationPoliciesOf(_, _)
operationPoliciesOf(apiId, operations) ==
    IF operations = <<>> THEN Nothing
    ELSE LET operationId == Head(operations).operationId
             item == Head(operations).path
         IN  IF item.kind # "file" THEN Thrown
             ELSE LET one == readPolicy(item,
                                 [filePath |-> Resolve(item.path),
                                  apiId |-> apiId,
                                  operationId |-> operationId,
                                  scope |-> "operation",
                                  content |-> item.read.content],
                                 <<apiId, operationId>>,
                                 "Failed to read operation policy for ",
                                 "Invalid XML content in operation policy for ")
                      rest == operationPoliciesOf(apiId, Tail(operations))
                  IN  [docs |-> one.docs \o rest.docs,
                       log |-> one.log \o rest.log,
                       reads |-> one.reads \o rest.reads,
                       threw |-> rest.threw]

\* The body of the for loop over Object.entries(manifest.policies).
processApiConfig(apiId, apiConfig) ==
    LET api == apiPolicyOf(apiId, apiConfig)
        ops == IF api.threw \/ "operations" \notin DOMAIN apiConfig
               THEN Nothing
               ELSE operationPoliciesOf(apiId, apiConfig.operations)
        caught == IF api.threw \/ ops.threw
                  THEN WarnError("Failed to process API configuration for ",
                                 <<apiId>>, TypeError).log
                  ELSE <<>>
    IN  [docs |-> api.docs \o ops.docs,
         log |-> api.log \o ops.log \o caught,
         reads |-> api.reads \o ops.reads]

(***************************************************************************)
(* policy-discovery.ts: the two strategies.  Each yields the documents it  *)
(* returns, the lines it logs and the glob, readFile and parseYaml calls   *)
(* it makes, in order.                                                     *)
(***************************************************************************)
\* A scan that a skipped candidate ends (break instead of continue).
RECURSIVE scanFilesStopAtSkip(_)
scanFilesStopAtSkip(policyFiles) ==
    IF policyFiles = <<>> THEN [docs |-> <<>>, log |-> <<>>, calls |-> <<>>]
    ELSE LET file == Head(policyFiles)
             one == scanFile(file.path, file.read)
             rest == IF one.docs = <<>>
                     THEN [docs |-> <<>>, log |-> <<>>, calls |-> <<>>]
                     ELSE scanFilesStopAtSkip(Tail(policyFiles))
         IN  [docs |-> one.docs \o rest.docs,
              log |-> one.log \o rest.log,
              calls |-> <<[op |-> "readFile", file |-> file.path]>>
                            \o rest.calls]

\* for (const filePath of policyFiles) { ... }
RECURSIVE scanFiles(_)
scanFiles(policyFiles) ==
    IF policyFiles = <<>> THEN [docs |-> <<>>, log |-> <<>>, calls |-> <<>>]
    ELSE LET file == Head(policyFiles)
             one == scanFile(file.path, file.read)
             rest == scanFiles(Tail(policyFiles))
         IN  [docs |-> one.docs \o rest.docs,
              log |-> one.log \o rest.log,
              calls |-> <<[op |-> "readFile", file |-> file.path]>>
                            \o rest.calls]

discoverPoliciesFromDefaultStructure(glob) ==
    IF glob.kind = "raise"
    THEN [docs |-> <<>>,
          log |-> <<[level |-> "error",
                     text |-> <<"Failed to discover policies from default structure: ">>,
                     error |-> ErrorMessageOf(glob.error)]>>,
          calls |-> <<[op |-> "glob"]>>]
    ELSE LET scan == scanFiles(glob.files)
         IN  [docs |-> scan.docs, log |-> scan.log,
              calls |-> <<[op |-> "glob"]>> \o scan.calls]

ManifestError(line, error) ==
    [level |-> "error", text |-> <<line>>, error |-> ErrorMessageOf(error)]

MissingPolicies ==
    [level |-> "error",
     text |-> <<"Invalid manifest format: missing policies section">>]

\* The calls and the error line of loadPolicyManifest, and whether it
\* answers a manifest.
loadPolicyManifest(manifestPath, load) ==
    LET read == [op |-> "readFile", manifestPath |-> manifestPath]
    IN  IF load.kind = "unreadable"
        THEN [calls |-> <<read>>, loaded |-> FALSE,
              log |-> <<ManifestError("Failed to load policy manifest: ",
                                      load.error)>>]
        ELSE IF load.kind = "unparsable"
        THEN [calls |-> <<read, [op |-> "parseYaml"]>>, loaded |-> FALSE,
              log |-> <<ManifestError("Failed to load policy manifest: ",
                                      load.error)>>]
        ELSE IF load.isNull \/ "policies" \notin DOMAIN load
        THEN [calls |-> <<read, [op |-> "parseYaml"]>>, loaded |-> FALSE,
              log |-> <<MissingPolicies>>]
        ELSE [calls |-> <<read, [op |-> "parseYaml"]>>, loaded |-> TRUE,
              log |-> <<>>]

\* for (const [apiId, apiConfig] of Object.entries(manifest.policies))
\* A walk over the manifest that pushes the documents of every entry
\* twice.
RECURSIVE processEntriesTwice(_)
processEntriesTwice(entries) ==
    IF entries = <<>> THEN [docs |-> <<>>, log |-> <<>>, calls |-> <<>>]
    ELSE LET one == processApiConfig(Head(entries).apiId,
                                     Head(entries).apiConfig)
             rest == processEntriesTwice(Tail(entries))
         IN  [docs |-> one.docs \o one.docs \o rest.docs,
              log |-> one.log \o rest.log,
              calls |-> one.reads \o rest.calls]

RECURSIVE processEntries(_)
processEntries(entries) ==
    IF entries = <<>> THEN [docs |-> <<>>, log |-> <<>>, calls |-> <<>>]
    ELSE LET one == processApiConfig(Head(entries).apiId,
                                     Head(entries).apiConfig)
             rest == processEntries(Tail(entries))
         IN  [docs |-> one.docs \o rest.docs,
              log |-> one.log \o rest.log,
              calls |-> one.reads \o rest.calls]

\* A manifest strategy that turns to the directory scan when the manifest
\* cannot be loaded.
discoverPoliciesFromManifestOrScan(manifestPath, load, glob) ==
    LET manifest == loadPolicyManifest(manifestPath, load)
    IN  IF ~manifest.loaded
        THEN LET scan == discoverPoliciesFromDefaultStructure(glob)
             IN  [docs |-> scan.docs, log |-> manifest.log \o scan.log,
                  calls |-> manifest.calls \o scan.calls]
        ELSE LET entries == processEntries(load.policies)
             IN  [docs |-> entries.docs,
                  log |-> manifest.log \o entries.log,
                  calls |-> manifest.calls \o entries.calls]

discoverPoliciesFromManifest(manifestPath, load, glob) ==
    LET manifest == loadPolicyManifest(manifestPath, load)
    IN  IF ~manifest.loaded
        THEN [docs |-> <<>>, log |-> manifest.log, calls |-> manifest.calls]
        ELSE LET entries == processEntries(load.policies)
             IN  [docs |-> entries.docs,
                  log |-> manifest.log \o entries.log,
                  calls |-> manifest.calls \o entries.calls]

(***************************************************************************)
(* One call of discoverPolicies against a file system.  The list it        *)
(* returns is policies; calls records the strategy that was entered and    *)
(* every glob, readFile and parseYaml call.                                *)
(***************************************************************************)
DiscoveryInit ==
    /\ remoteApis = <<>>
    /\ remoteOps = NoOps
    /\ remotePolicy = [target \in Targets |-> NoPolicy]
    /\ pc = "discovery"
    /\ config = [unset |-> TRUE]
    /\ policies = <<>>
    /\ idx = 0
    /\ lastETag = ""
    /\ results = <<>>
    /\ calls = <<>>
    /\ outputs = <<>>
    /\ failures = <<>>
    /\ log = <<>>
    /\ path = NoPath
    /\ pathOut = NoPathOut
    /\ text = NoText
    /\ textOut = NoTextOut
    /\ \/ \E n \in 0..MaxFiles :
             \E files \in [1..n -> Candidates] :
                 disk = ConventionDisk([kind |-> "ok", files |-> files])
       \/ \E error \in GlobFaults :
             disk = ConventionDisk([kind |-> "raise", error |-> error])
       \/ \E load \in LoadFaults : disk = ManifestDisk(load)
       \/ HoldsManifest(MaxEntries, MaxItems, <<>>)

\* The call ends: the strategy entered, what it did and what it returned.
DiscoveryReturns(strategy, out) ==
    /\ calls' = <<[op |-> strategy]>> \o out.calls
    /\ policies' = out.docs
    /\ log' = out.log
    /\ pc' = "returned"
    /\ UNCHANGED << remoteApis, remoteOps, remotePolicy, config, idx,
                    lastETag, results, outputs, failures, unitVars >>

\* discoverPolicies(manifestPath) with a manifest path.
DiscoverWithManifest ==
    /\ pc = "discovery"
    /\ disk.manifestPath # ""
    /\ DiscoveryReturns("discoverPoliciesFromManifest",
                        discoverPoliciesFromManifest(disk.manifestPath,
                                                     disk.load, disk.glob))

\* discoverPolicies(manifestPath) without one.
DiscoverByConvention ==
    /\ pc = "discovery"
    /\ disk.manifestPath = ""
    /\ DiscoveryReturns("discoverPoliciesFromDefaultStructure",
                        discoverPoliciesFromDefaultStructure(disk.glob))

DiscoveryNext == DiscoverWithManifest \/ DiscoverByConvention

DiscoverySpec == DiscoveryInit /\ [][DiscoveryNext]_vars

(***************************************************************************)
(* The client on its own: one call of updateApiPolicy or of                *)
(* updateOperationPolicy against a remote service, with every outcome of   *)
(* the calls it awaits.  The call and what it returned are recorded the    *)
(* way an iteration of run() records them.                                 *)
(***************************************************************************)
ClientInit ==
    /\ \E remote \in ClientRemoteConfigs :
          /\ remoteApis = remote.apis
          /\ remoteOps = remote.ops
    /\ remotePolicy = [target \in Targets |-> NoPolicy]
    /\ pc = "client"
    /\ config = [unset |-> TRUE]
    /\ policies = <<>>
    /\ idx = 0
    /\ lastETag = ""
    /\ results = <<>>
    /\ calls = <<>>
    /\ outputs = <<>>
    /\ failures = <<>>
    /\ log = <<>>
    /\ path = NoPath
    /\ pathOut = NoPathOut
    /\ text = NoText
    /\ textOut = NoTextOut
    /\ disk = NoDisk

\* The call ends: what it returned, the calls it made, what it wrote.
ClientReturns(call, content, update) ==
    /\ calls' = <<call>> \o update.calls
    /\ results' = <<update.result>>
    /\ remotePolicy' =
          [target \in Targets |->
              IF target \in update.written
              THEN content ELSE remotePolicy[target]]
    /\ pc' = "returned"
    /\ UNCHANGED << remoteApis, remoteOps, config, policies, idx, lastETag,
                    outputs, failures, log, unitVars >>

CallUpdateApiPolicy ==
    /\ pc = "client"
    /\ \E apiId \in {"api1", "api2"}, content \in PolicyContents,
          env \in UpdateEnvs :
          /\ env.fault # "escapes"
          /\ ClientReturns([op |-> "updateApiPolicy", apiId |-> apiId,
                            content |-> content],
                           content, updateApiPolicy(apiId, content, env))

CallUpdateOperationPolicy ==
    /\ pc = "client"
    /\ \E apiId \in {"api1", "api2"}, operationId \in OperationIds,
          content \in PolicyContents, env \in UpdateEnvs :
          /\ env.fault # "escapes"
          /\ ClientReturns([op |-> "updateOperationPolicy", apiId |-> apiId,
                            operationId |-> operationId,
                            content |-> content],
                           content,
                           updateOperationPolicy(apiId, operationId, content,
                                                 env))

ClientNext == CallUpdateApiPolicy \/ CallUpdateOperationPolicy

ClientSpec == ClientInit /\ [][ClientNext]_vars

(***************************************************************************)
(* Reading the history of a run.                                           *)
(***************************************************************************)
UpdateOps == {"updateApiPolicy", "updateOperationPolicy"}

WriteOps == {"apiPolicy.createOrUpdate", "apiOperationPolicy.createOrUpdate"}

IsUpdateCall(c) == c.op \in UpdateOps

IsWriteCall(c) == c.op \in WriteOps

UpdateCalls == SelectSeq(calls, IsUpdateCall)

WriteCalls == SelectSeq(calls, IsWriteCall)

\* The position in calls of the update call of iteration n.
UpdateIndex(n) ==
    CHOOSE j \in 1..Len(calls) :
        /\ IsUpdateCall(calls[j])
        /\ Cardinality({i \in 1..j : IsUpdateCall(calls[i])}) = n

\* The calls the client made during iteration n, in order.
IterationCalls(n) ==
    SubSeq(calls, UpdateIndex(n) + 1,
           IF n < Len(UpdateCalls) THEN UpdateIndex(n + 1) - 1
           ELSE Len(calls))

\* The loop over the documents was entered.
LoopEntered == idx >= 1

Returned(r) == "updated" \in DOMAIN r

Applied(r) == Returned(r) /\ r.updated

\* The text of a message has the identifier as one of its pieces.
Names(message, id) == \E q \in 1..Len(message) : message[q] = id

\* The text of a message lists the identifiers, in their order, after its
\* first `from` pieces.
Enumerates(message, from, ids) ==
    /\ Len(message) >= from
    /\ SelectSeq(SubSeq(message, from + 1, Len(message)),
                 LAMBDA piece : piece # ", ") = ids

\* The last token of the results that satisfy keep, '' if there is none.
LastToken(rs, keep(_)) ==
    LET hits == {k \in 1..Len(rs) : keep(rs[k])}
    IN  IF hits = {} THEN ""
        ELSE rs[CHOOSE k \in hits : \A m \in hits : m <= k].etag

(***************************************************************************)
(* C1.  Failure isolation of the update loop: once the document list is    *)
(* validated, run() calls the update operation that matches each document, *)
(* for every document and in list order, whatever the earlier documents    *)
(* ended with (applied, rejected, failed, thrown), and only then publishes *)
(* the etag output, once, without marking the run failed.                  *)
(***************************************************************************)
C1_FailureIsolation ==
    /\ pc = "update" =>
          /\ idx \in 1..Len(policies)
          /\ UpdateCalls = [k \in 1..(idx - 1) |-> UpdateCall(policies[k])]
          /\ Len(results) = idx - 1
          /\ outputs = <<>>
    /\ (pc = "done" /\ LoopEntered) =>
          /\ UpdateCalls =
                 [k \in 1..Len(policies) |-> UpdateCall(policies[k])]
          /\ Len(results) = Len(policies)
          /\ Len(outputs) = 1
          /\ failures = <<>>

\* A run of two documents: the first update threw, the second was applied.
C1_Witness ==
    /\ pc = "done"
    /\ Len(results) = 2
    /\ "threw" \in DOMAIN results[1]
    /\ Applied(results[2])
    /\ outputs = <<results[2].etag>>

(***************************************************************************)
(* C2, as stated.  At the end of the loop the published etag is the token  *)
(* of the last result with updated = true, the empty token included, and   *)
(* '' when no update succeeded.                                            *)
(***************************************************************************)
C2_LastAppliedToken ==
    (pc = "done" /\ LoopEntered) =>
        outputs = << LastToken(results, Applied) >>

(***************************************************************************)
(* C2, amended.  At the end of the loop the published etag is the token of *)
(* the last result with updated = true and a non-empty token, and '' when  *)
(* there is no such result: a successful result with an empty token leaves *)
(* the value of an earlier successful result in place.                     *)
(***************************************************************************)
AppliedWithToken(r) == Applied(r) /\ r.etag # ""

C2_LastNonEmptyToken ==
    (pc = "done" /\ LoopEntered) =>
        outputs = << LastToken(results, AppliedWithToken) >>

\* A token was returned first, then a successful write returned none.
C2_Witness ==
    /\ pc = "done"
    /\ Len(results) = 2
    /\ Applied(results[1]) /\ results[1].etag = "e1"
    /\ Applied(results[2]) /\ results[2].etag = ""
    /\ outputs = <<"e1">>

(***************************************************************************)
(* C3.  On every early-abort path of run() (input parsing throws an Error  *)
(* or another value, the connection test answers false, discovery rejects  *)
(* or returns no document, the validator answers false) the published etag *)
(* is the empty string and no update call was made.                        *)
(***************************************************************************)
AbortMessages ==
    { "subscription_id input is required", "resource_group input is required",
      "apim_name input is required", "An unknown error occurred",
      "Failed to connect to Azure API Management service",
      "Failed to discover policies", "Policy validation failed" }

EarlyAbort == pc = "done" /\ ~LoopEntered

C3_EarlyAbortPublishesEmpty ==
    EarlyAbort =>
        /\ outputs = <<"">>
        /\ UpdateCalls = <<>>
        /\ WriteCalls = <<>>
        /\ \/ Len(failures) = 1 /\ failures[1] \in AbortMessages
           \/ failures = <<>> /\ policies = <<>>

\* Discovery rejected with a value that is not an Error.
C3_Witness ==
    /\ EarlyAbort
    /\ calls[Len(calls)].op = "discoverPolicies"
    /\ failures = <<"An unknown error occurred">>
    /\ outputs = <<"">>

(***************************************************************************)
(* C4.  If testConnection answers false the run is over before discovery:  *)
(* it is marked failed exactly once, with the connection-failure message,  *)
(* and no discovery, validation, listing or update call follows.           *)
(***************************************************************************)
ConnectionFailedAt(k) ==
    calls[k].op = "testConnection" /\ ~calls[k].returned

C4_ConnectionFaultAborts ==
    \A k \in 1..Len(calls) :
        ConnectionFailedAt(k) =>
            /\ k = Len(calls)
            /\ pc = "done"
            /\ failures =
                  <<"Failed to connect to Azure API Management service">>
            /\ \A j \in 1..Len(calls) :
                  calls[j].op \notin
                      UpdateOps \cup WriteOps
                          \cup {"discoverPolicies", "validatePolicies",
                                "listApis", "listOperations"}

C4_Witness ==
    /\ Len(calls) = 2
    /\ ConnectionFailedAt(2)
    /\ pc = "done"

(***************************************************************************)
(* C5.  The update loop never runs unless validatePolicies answered true:  *)
(* when it answers false the run is marked failed with 'Policy validation  *)
(* failed', no call to the remote service (listing or write) and no update *)
(* call is made from then on, and every update call of a run comes after a *)
(* validatePolicies call that answered true.  The discovered list is never *)
(* reassigned after discovery, so the answer is recomputed once, when the  *)
(* first iteration has run.                                                *)
(***************************************************************************)
C5_LoopOnlyAfterValidation ==
    /\ \A k \in 1..Len(calls) :
          (calls[k].op = "validatePolicies" /\ ~calls[k].returned) =>
              /\ k = Len(calls)
              /\ pc = "done"
              /\ failures = <<"Policy validation failed">>
              /\ WriteCalls = <<>>
              /\ UpdateCalls = <<>>
    /\ \A j \in 1..Len(calls) :
          (IsUpdateCall(calls[j]) \/ IsWriteCall(calls[j])) =>
              \E k \in 1..(j - 1) :
                  calls[k].op = "validatePolicies" /\ calls[k].returned
    /\ (LoopEntered /\ idx = 1) => validatePolicies(policies)

\* Two API-level documents of one API were discovered.
C5_Witness ==
    /\ pc = "done"
    /\ Len(policies) = 2
    /\ calls[Len(calls)].op = "validatePolicies"
    /\ ~calls[Len(calls)].returned

(***************************************************************************)
(* C6, as stated.  Whenever discovery yields no documents the run ends     *)
(* marked failed, with one failure message, and makes no update call.      *)
(***************************************************************************)
DiscoveredEmpty ==
    /\ \E k \in 1..Len(calls) :
          calls[k].op = "discoverPolicies" /\ ~calls[k].threw
    /\ policies = <<>>

C6_EmptyIsFatal ==
    DiscoveredEmpty =>
        /\ pc = "done"
        /\ Len(failures) = 1
        /\ UpdateCalls = <<>>

(***************************************************************************)
(* C6, amended.  Whenever discovery yields no documents the run ends       *)
(* without being marked failed: it warns 'No policy files found to         *)
(* update', publishes the empty etag and makes no validation, update or    *)
(* write call.                                                             *)
(***************************************************************************)
C6_EmptyEndsWithWarning ==
    DiscoveredEmpty =>
        /\ pc = "done"
        /\ failures = <<>>
        /\ outputs = <<"">>
        /\ Len(log) >= 1
        /\ log[Len(log)] = [level |-> "warning",
                            text |-> <<"No policy files found to update">>]
        /\ calls[Len(calls)].op = "discoverPolicies"
        /\ UpdateCalls = <<>>
        /\ WriteCalls = <<>>

C6_Witness ==
    /\ DiscoveredEmpty
    /\ pc = "done"
    /\ outputs = <<"">>

(***************************************************************************)
(* C7.  API existence guard: whenever the API listing that updateApiPolicy *)
(* obtains does not contain apiId, the result has updated = false and an   *)
(* error that names apiId and lists the identifiers of the listing, and    *)
(* apiPolicy.createOrUpdate is not called.                                 *)
(***************************************************************************)
ApiMissingIn(n) ==
    /\ Len(IterationCalls(n)) >= 1
    /\ IterationCalls(n)[1].op = "listApis"
    /\ ~Includes1(IterationCalls(n)[1].returned,
                  calls[UpdateIndex(n)].apiId)

ApiRejection(n) ==
    LET c == calls[UpdateIndex(n)]
        r == results[n]
    IN  /\ Returned(r)
        /\ ~r.updated
        /\ "error" \in DOMAIN r
        /\ r.error[1] = "API '"
        /\ Names(r.error, c.apiId)
        /\ Enumerates(r.error, 3, IterationCalls(n)[1].returned)
        /\ Len(IterationCalls(n)) = 1

C7_ApiExistenceGuard ==
    \A n \in 1..Len(results) :
        (calls[UpdateIndex(n)].op = "updateApiPolicy" /\ ApiMissingIn(n)) =>
            ApiRejection(n)

\* An API-level update of an API the service does not list, while it
\* lists another one.
C7_Witness ==
    \E n \in 1..Len(results) :
        /\ calls[UpdateIndex(n)].op = "updateApiPolicy"
        /\ ApiMissingIn(n)
        /\ IterationCalls(n)[1].returned # <<>>
        /\ calls[UpdateIndex(n)].apiId \notin
              {remoteApis[k] : k \in 1..Len(remoteApis)}

(***************************************************************************)
(* C8.  Operation existence guard and its order: updateOperationPolicy     *)
(* calls the operation-level write only after listApis contained apiId and *)
(* then listOperations(apiId) contained operationId; if the API is missing *)
(* it returns the API-not-found rejection without asking for the           *)
(* operations; if the API is there and the operation is missing it returns *)
(* a rejection that names the operation and lists the available            *)
(* operations; neither rejection writes.                                   *)
(***************************************************************************)
OperationMissingIn(n) ==
    /\ Len(IterationCalls(n)) >= 2
    /\ IterationCalls(n)[2].op = "listOperations"
    /\ ~Includes1(IterationCalls(n)[2].returned,
                  calls[UpdateIndex(n)].operationId)

OperationRejection(n) ==
    LET c == calls[UpdateIndex(n)]
        r == results[n]
    IN  /\ Returned(r)
        /\ ~r.updated
        /\ "error" \in DOMAIN r
        /\ r.error[1] = "Operation '"
        /\ Names(r.error, c.operationId)
        /\ Names(r.error, c.apiId)
        /\ Enumerates(r.error, 5, IterationCalls(n)[2].returned)
        /\ Len(IterationCalls(n)) = 2

GuardedOperationWrite(n) ==
    LET c == calls[UpdateIndex(n)]
        it == IterationCalls(n)
    IN  /\ Len(it) = 3
        /\ it[1].op = "listApis"
        /\ Includes1(it[1].returned, c.apiId)
        /\ it[2].op = "listOperations"
        /\ it[2].apiId = c.apiId
        /\ Includes1(it[2].returned, c.operationId)
        /\ it[3].op = "apiOperationPolicy.createOrUpdate"
        /\ it[3].apiId = c.apiId
        /\ it[3].operationId = c.operationId

C8_OperationExistenceGuard ==
    \A n \in 1..Len(results) :
        calls[UpdateIndex(n)].op = "updateOperationPolicy" =>
            /\ (\E q \in 1..Len(IterationCalls(n)) :
                    IsWriteCall(IterationCalls(n)[q]))
                  => GuardedOperationWrite(n)
            /\ ApiMissingIn(n) => ApiRejection(n)
            /\ OperationMissingIn(n) => OperationRejection(n)

\* An operation-level update whose API is listed, with operations, but
\* not with the one that is asked for.
C8_Witness ==
    \E n \in 1..Len(results) :
        /\ calls[UpdateIndex(n)].op = "updateOperationPolicy"
        /\ OperationMissingIn(n)
        /\ IterationCalls(n)[2].returned # <<>>
        /\ OperationRejection(n)

(***************************************************************************)
(* C9.  Result shape: every result that updateApiPolicy or                 *)
(* updateOperationPolicy returns, on every path (rejected, written, write  *)
(* failed, unexpected exception), has etag defined exactly when updated is *)
(* true and error defined exactly when updated is false; a write that      *)
(* succeeds with a response that carries no version token yields etag ''.  *)
(***************************************************************************)
WroteWithoutToken(n) ==
    LET it == IterationCalls(n)
    IN  /\ Len(it) >= 1
        /\ IsWriteCall(it[Len(it)])
        /\ it[Len(it)].outcome.kind = "ok"
        /\ "eTag" \notin DOMAIN it[Len(it)].outcome.response

C9_ResultShape ==
    \A n \in 1..Len(results) :
        Returned(results[n]) =>
            /\ ("etag" \in DOMAIN results[n]) <=> results[n].updated
            /\ ("error" \in DOMAIN results[n]) <=> ~results[n].updated
            /\ WroteWithoutToken(n) =>
                  /\ results[n].updated
                  /\ "etag" \in DOMAIN results[n]
                  /\ results[n].etag = ""

\* An operation-level write answered without a token.
C9_Witness ==
    /\ Len(results) = 1
    /\ calls[UpdateIndex(1)].op = "updateOperationPolicy"
    /\ WroteWithoutToken(1)
    /\ results[1].etag = ""

(***************************************************************************)
(* C10.  Path grammar, API-level shape: for every path policies/{a}/api.xml*)
(* written with forward or back slashes, a non-empty and free of           *)
(* separators, extractApiIdFromPath answers a, isApiLevelPolicy is true,   *)
(* isOperationLevelPolicy is false and extractOperationIdFromPath answers  *)
(* null.                                                                   *)
(***************************************************************************)
ApiLevelShape(p) ==
    /\ Len(p.segs) = 3
    /\ p.segs[1] = LitPolicies
    /\ p.segs[2] # <<>>
    /\ p.segs[3] = LitApiXml

C10_ApiLevelShape ==
    (pathOut.classified /\ ApiLevelShape(path)) =>
        /\ pathOut.apiId = path.segs[2]
        /\ pathOut.isApiLevel
        /\ ~pathOut.isOperationLevel
        /\ pathOut.operationId = Null

\* policies\operations/api.xml, classified.
C10_Witness ==
    /\ pathOut.classified
    /\ ApiLevelShape(path)
    /\ path.segs[2] = LitOperations
    /\ path.seps = <<"\\", "/">>

(***************************************************************************)
(* C11, as stated.  Path grammar, operation-level shape: for every path    *)
(* policies/{a}/operations/{o}.xml, a and o non-empty and free of          *)
(* separators, extractApiIdFromPath answers a, extractOperationIdFromPath  *)
(* answers o, isOperationLevelPolicy is true and isApiLevelPolicy is       *)
(* false; and no path at all makes both classifiers true.  The path        *)
(* policies/policies/operations/api.xml refutes both halves: the API-level *)
(* expression matches from its second directory on.                        *)
(***************************************************************************)
OperationLevelShape(p) ==
    /\ Len(p.segs) = 4
    /\ p.segs[1] = LitPolicies
    /\ p.segs[2] # <<>>
    /\ p.segs[3] = LitOperations
    /\ Len(p.segs[4]) > Len(LitDotXml)
    /\ EndsWith(p.segs[4], LitDotXml)

\* {o}: the file name without its extension.
BaseName(file) == SubSeq(file, 1, Len(file) - Len(LitDotXml))

C11_OperationLevelShape ==
    /\ (pathOut.classified /\ OperationLevelShape(path)) =>
          /\ pathOut.apiId = path.segs[2]
          /\ pathOut.operationId = BaseName(path.segs[4])
          /\ pathOut.isOperationLevel
          /\ ~pathOut.isApiLevel
    /\ pathOut.classified =>
          ~(pathOut.isApiLevel /\ pathOut.isOperationLevel)

(***************************************************************************)
(* C12.  The two shapes, read off the segments of a path: the path ends in *)
(* policies/{a}/api.xml, or in policies/{a}/operations/{o}.xml, whatever   *)
(* stands in front of the word policies.                                   *)
(***************************************************************************)
EndsInApiShape(p) ==
    LET n == Len(p.segs)
    IN  /\ n >= 3
        /\ EndsWith(p.segs[n - 2], LitPolicies)
        /\ p.segs[n - 1] # <<>>
        /\ p.segs[n] = LitApiXml

EndsInOperationShape(p) ==
    LET n == Len(p.segs)
    IN  /\ n >= 4
        /\ EndsWith(p.segs[n - 3], LitPolicies)
        /\ p.segs[n - 2] # <<>>
        /\ p.segs[n - 1] = LitOperations
        /\ Len(p.segs[n]) > Len(LitDotXml)
        /\ EndsWith(p.segs[n], LitDotXml)

MatchesNoShape(p) == ~EndsInApiShape(p) /\ ~EndsInOperationShape(p)

\* The segments that end in the word policies and are followed by a
\* non-empty segment and one more separator.
PoliciesSegments(p) ==
    { k \in 1..(Len(p.segs) - 2) :
        EndsWith(p.segs[k], LitPolicies) /\ p.segs[k + 1] # <<>> }

RECURSIVE DropLeading(_)
DropLeading(s) ==
    IF s # <<>> /\ Head(s) \in WhiteSpace THEN DropLeading(Tail(s)) ELSE s

RECURSIVE DropTrailing(_)
DropTrailing(s) ==
    IF s # <<>> /\ s[Len(s)] \in WhiteSpace
    THEN DropTrailing(SubSeq(s, 1, Len(s) - 1)) ELSE s

Occurs(lit, s) ==
    \E a \in 0..Len(s), b \in 0..Len(s) :
        /\ a + Len(lit) + b = Len(s)
        /\ \A k \in 1..Len(lit) : s[a + k] = lit[k]

WellFormedPolicyText(c) ==
    LET t == DropTrailing(DropLeading(c))
    IN  /\ t # <<>>
        /\ t[1] = "<"
        /\ t[Len(t)] = ">"
        /\ Occurs(LitOpenTag, t)
        /\ Occurs(LitCloseTag, t)

RejectedExamples ==
    { <<>>, <<" ", " ", " ">>, <<"n", "o", "t", " ", "x", "m", "l">>,
      <<"<", "r", "o", "o", "t", ">", "<", "/", "r", "o", "o", "t", ">">> }

AcceptedExample ==
    LitOpenTag \o <<"<", "i", "n", "b", "o", "u", "n", "d", "/", ">">>
        \o LitCloseTag

C13_ContentValidator ==
    textOut.validated =>
        /\ textOut.valid <=> WellFormedPolicyText(text)
        /\ textOut.valid = textOut.validTrimmed
        /\ text \in RejectedExamples => ~textOut.valid
        /\ text = AcceptedExample => textOut.valid

\* White space, then the closing tag in front of the opening tag: accepted.
C13_Witness ==
    /\ textOut.validated
    /\ text = <<"\n">> \o LitCloseTag \o LitOpenTag
    /\ textOut.valid
    /\ textOut.validTrimmed

(***************************************************************************)
(* The aggregate validator on its own: validatePolicies is handed a list   *)
(* of documents of any make, invalid contents and repeated targets         *)
(* included.                                                               *)
(***************************************************************************)
ListedDocs ==
    { [filePath |-> <<"/w", apiId, "api.xml">>, apiId |-> apiId,
       scope |-> "api", content |-> content] :
        apiId \in {"api1", "api2"}, content \in {PolicyXmlA, InvalidXml} }
    \cup { [filePath |-> <<"/w", apiId, operationId>>, apiId |-> apiId,
            operationId |-> operationId, scope |-> "operation",
            content |-> content] :
             apiId \in {"api1", "api2"}, operationId \in OperationIds,
             content \in {PolicyXmlA, InvalidXml} }

ValidatorInit ==
    /\ remoteApis = <<>>
    /\ remoteOps = NoOps
    /\ remotePolicy = [target \in Targets |-> NoPolicy]
    /\ pc = "validator"
    /\ config = [unset |-> TRUE]
    /\ \E n \in 0..MaxListed : \E docs \in [1..n -> ListedDocs] :
          policies = docs
    /\ idx = 0
    /\ lastETag = ""
    /\ results = <<>>
    /\ calls = <<>>
    /\ outputs = <<>>
    /\ failures = <<>>
    /\ log = <<>>
    /\ path = NoPath
    /\ pathOut = NoPathOut
    /\ text = NoText
    /\ textOut = NoTextOut
    /\ disk = NoDisk

ValidateList ==
    /\ pc = "validator"
    /\ calls' = <<[op |-> "validatePolicies", policies |-> policies,
                   returned |-> validatePolicies(policies)]>>
    /\ log' = validationReport(policies)
    /\ pc' = "validated"
    /\ UNCHANGED << remoteApis, remoteOps, remotePolicy, config, policies,
                    idx, lastETag, results, outputs, failures, unitVars >>

ValidatorNext == ValidateList

ValidatorSpec == ValidatorInit /\ [][ValidatorNext]_vars

(***************************************************************************)
(* Readers of one call of discoverPolicies.                                *)
(***************************************************************************)
DiscoveryReturned == pc = "returned" /\ disk # NoDisk

ByConvention == disk.manifestPath = ""

\* The manifest was loaded: its entries were walked.
ManifestLoaded ==
    /\ ~ByConvention
    /\ disk.load.kind = "parsed"
    /\ "policies" \in DOMAIN disk.load

\* The candidates were enumerated: the scan ran.
Enumerated == ByConvention /\ disk.glob.kind = "ok"

(***************************************************************************)
(* C14.  Every document discoverPolicies returns, under either strategy,   *)
(* has a content that passes validateXmlContent, and carries an            *)
(* operationId exactly when its scope is 'operation' (its scope being      *)
(* 'api' otherwise).                                                       *)
(***************************************************************************)
C14_DocumentInvariant ==
    DiscoveryReturned =>
        \A k \in 1..Len(policies) :
            /\ validateXmlContent(policies[k].content)
            /\ policies[k].scope \in {"api", "operation"}
            /\ ("operationId" \in DOMAIN policies[k])
                   <=> (policies[k].scope = "operation")

\* A scan that met an unreadable or invalid file and emitted an
\* operation-scope document.
C14_Witness ==
    /\ DiscoveryReturned
    /\ Enumerated
    /\ Len(disk.glob.files) = 2
    /\ Len(policies) = 1
    /\ policies[1].scope = "operation"
    /\ policies[1].operationId = <<"o">>
    /\ \E k \in 1..2 :
          /\ disk.glob.files[k].read.kind = "ok"
          /\ disk.glob.files[k].read.content = InvalidXml

(***************************************************************************)
(* C15, as stated.  Every document discoverPolicies returns has a          *)
(* non-empty apiId, under the convention strategy and under the manifest   *)
(* strategy, whatever the keys of the manifest.  A manifest whose policies *)
(* section has the empty string as a key refutes it: the key becomes the   *)
(* apiId of the documents of that entry.                                   *)
(***************************************************************************)
C15_NonEmptyApiId ==
    DiscoveryReturned =>
        \A k \in 1..Len(policies) : policies[k].apiId # <<>>

(***************************************************************************)
(* C16.  Convention discovery is a filter over the enumerated candidates:  *)
(* it returns, in enumeration order, one document for each candidate that  *)
(* can be read, passes validateXmlContent, yields an apiId and is of one   *)
(* of the two shapes, and it logs one warning for each other candidate; a  *)
(* skipped candidate never removes, repeats or moves another candidate's   *)
(* document.                                                               *)
(***************************************************************************)
Survives(file) ==
    /\ file.read.kind = "ok"
    /\ validateXmlContent(file.read.content)
    /\ extractApiIdFromPath(file.path) \notin {Null, <<>>}
    /\ isApiLevelPolicy(file.path) \/ isOperationLevelPolicy(file.path)

Skipped(file) == ~Survives(file)

C16_ConventionIsFilter ==
    (DiscoveryReturned /\ Enumerated) =>
        LET kept == SelectSeq(disk.glob.files, Survives)
            dropped == SelectSeq(disk.glob.files, Skipped)
        IN  /\ Len(policies) = Len(kept)
            /\ \A k \in 1..Len(kept) :
                  /\ policies[k].filePath = Resolve(kept[k].path)
                  /\ policies[k].content = kept[k].read.content
            /\ Len(log) = Len(dropped)
            /\ \A k \in 1..Len(dropped) :
                  /\ log[k].level = "warning"
                  /\ log[k].about = dropped[k].path

\* The first of two candidates cannot be read, the second is emitted.
C16_Witness ==
    /\ DiscoveryReturned
    /\ Enumerated
    /\ Len(disk.glob.files) = 2
    /\ disk.glob.files[1].read.kind = "raise"
    /\ Len(policies) = 1
    /\ policies[1].filePath = Resolve(disk.glob.files[2].path)
    /\ Len(log) = 1

(***************************************************************************)
(* C17, as stated.  Manifest discovery isolates failures per policy path:  *)
(* whatever paths of a manifest cannot be resolved, cannot be read or hold *)
(* invalid content, the documents returned are exactly those of the other  *)
(* paths, API-level and operation-level, of every entry.  An operations    *)
(* mapping whose first path is not a string refutes it: path.resolve       *)
(* throws outside the try block of the path, and the catch block of the    *)
(* entry ends the walk over the other operations of that apiId.            *)
(***************************************************************************)
Usable(item) ==
    /\ item.kind = "file"
    /\ item.read.kind = "ok"
    /\ validateXmlContent(item.read.content)

EmittedApiPolicy(apiId) ==
    \E k \in 1..Len(policies) :
        policies[k].apiId = apiId /\ policies[k].scope = "api"

EmittedOperationPolicy(apiId, operationId) ==
    \E k \in 1..Len(policies) :
        /\ policies[k].apiId = apiId
        /\ policies[k].scope = "operation"
        /\ policies[k].operationId = operationId

C17_ManifestIsolation ==
    (DiscoveryReturned /\ ManifestLoaded) =>
        \A i \in 1..Len(disk.load.policies) :
            LET entry == disk.load.policies[i]
                apiConfig == entry.apiConfig
            IN  /\ "apiPolicyPath" \in DOMAIN apiConfig =>
                      (EmittedApiPolicy(entry.apiId)
                           <=> Usable(apiConfig.apiPolicyPath))
                /\ "operations" \in DOMAIN apiConfig =>
                      \A j \in 1..Len(apiConfig.operations) :
                          EmittedOperationPolicy(entry.apiId,
                                  apiConfig.operations[j].operationId)
                              <=> Usable(apiConfig.operations[j].path)

(***************************************************************************)
(* C18.  discoverPolicies enters exactly one strategy, the manifest        *)
(* strategy if a manifest path was supplied and the convention strategy    *)
(* otherwise; when the manifest cannot be read or parsed or lacks its      *)
(* policies section, or when the enumeration fails, the call returns no    *)
(* document and logs one error line, reads no policy file and does not     *)
(* turn to the other strategy.                                             *)
(***************************************************************************)
TopLevelFault ==
    \/ ByConvention /\ disk.glob.kind = "raise"
    \/ ~ByConvention /\ ~ManifestLoaded

ReadsPolicyFile(c) == c.op = "readFile" /\ "file" \in DOMAIN c

C18_OneStrategy ==
    DiscoveryReturned =>
        /\ calls[1].op = IF ByConvention
                         THEN "discoverPoliciesFromDefaultStructure"
                         ELSE "discoverPoliciesFromManifest"
        /\ \A k \in 2..Len(calls) :
              /\ calls[k].op \in {"glob", "readFile", "parseYaml"}
              /\ ByConvention =>
                    calls[k].op # "parseYaml" /\ "manifestPath" \notin DOMAIN calls[k]
              /\ ~ByConvention => calls[k].op # "glob"
        /\ TopLevelFault =>
              /\ policies = <<>>
              /\ Len(log) = 1
              /\ log[1].level = "error"
              /\ \A k \in 1..Len(calls) : ~ReadsPolicyFile(calls[k])

\* The manifest does not parse while the directory holds a valid policy.
C18_Witness ==
    /\ DiscoveryReturned
    /\ ~ByConvention
    /\ disk.load.kind = "unparsable"
    /\ disk.glob.kind = "ok"
    /\ Len(disk.glob.files) = 1
    /\ policies = <<>>
    /\ Len(calls) = 3

(***************************************************************************)
(* C19.  Aggregate validator: validatePolicies answers true exactly when   *)
(* the list is non-empty, no two 'api'-scope documents share an apiId and  *)
(* every content passes validateXmlContent; the operation-scope documents  *)
(* of an apiId, however many, never change the answer.                     *)
(***************************************************************************)
TwoApiPolicies(docs) ==
    \E i \in 1..Len(docs), j \in 1..Len(docs) :
        /\ i < j
        /\ docs[i].scope = "api"
        /\ docs[j].scope = "api"
        /\ docs[i].apiId = docs[j].apiId

ApiScoped(doc) == doc.scope = "api"

C19_AggregateValidator ==
    pc = "validated" =>
        /\ calls[1].returned <=>
              /\ Len(policies) > 0
              /\ ~TwoApiPolicies(policies)
              /\ \A k \in 1..Len(policies) :
                    validateXmlContent(policies[k].content)
        /\ Len(policies) > 0 =>
              calls[1].returned =
                  ( /\ ~TwoApiPolicies(SelectSeq(policies, ApiScoped))
                    /\ \A k \in 1..Len(policies) :
                          validateXmlContent(policies[k].content) )

\* One API-level and two operation-level documents of one API, the two of
\* the same operation: valid.
C19_Witness ==
    /\ pc = "validated"
    /\ Len(policies) = 3
    /\ \A k \in 1..3 : policies[k].apiId = "api1"
    /\ policies[1].scope = "api"
    /\ policies[2].scope = "operation"
    /\ policies[3].scope = "operation"
    /\ policies[2].operationId = policies[3].operationId
    /\ calls[1].returned

(***************************************************************************)
(* C20.  Each iteration of the update loop overwrites lastETag exactly     *)
(* when its result has updated = true and a non-empty etag, with that      *)
(* etag; a result with updated = false, a thrown exception and a           *)
(* successful result with an empty token leave lastETag as it was; and the *)
(* iteration that ends the loop publishes the lastETag it leaves.          *)
(***************************************************************************)
IterationStep == Len(results') = Len(results) + 1

C20_TokenFrame ==
    [][ IterationStep =>
          LET result == results'[Len(results')]
          IN  /\ lastETag' = IF AppliedWithToken(result)
                             THEN result.etag ELSE lastETag
              /\ pc' = "done" => outputs' = Append(outputs, lastETag') ]_vars

\* A token was returned first, then the second call threw: the token of
\* the first is kept and published.
C20_Witness ==
    /\ pc = "done"
    /\ Len(results) = 2
    /\ Applied(results[1]) /\ results[1].etag = "e2"
    /\ ~Returned(results[2])
    /\ lastETag = "e2"
    /\ outputs = <<"e2">>


(***************************************************************************)
(* C21.  The error of a failed write: when createOrUpdate raises, the      *)
(* error of the returned result is the first that is there of the nested   *)
(* message of the response payload, the payload's top-level message, the   *)
(* raised value's own message and 'Unknown error', for every raised value, *)
(* Error instance or not, with or without a payload, for API-level and     *)
(* operation-level writes alike.                                           *)
(***************************************************************************)
\* The ordered chain, read off the raised value whatever its class.
MessageChain(error) ==
    LET data == IF /\ "response" \in DOMAIN error
                   /\ "data" \in DOMAIN error.response
                THEN error.response.data ELSE [none |-> TRUE]
    IN  IF /\ "error" \in DOMAIN data
           /\ "message" \in DOMAIN data.error
           /\ Truthy(data.error.message)
        THEN data.error.message
        ELSE IF "message" \in DOMAIN data /\ Truthy(data.message)
        THEN data.message
        ELSE IF "message" \in DOMAIN error
        THEN error.message
        ELSE "Unknown error"

\* Iteration n ended with a write that raised.
WriteRaised(n) ==
    LET it == IterationCalls(n)
    IN  /\ Len(it) >= 1
        /\ IsWriteCall(it[Len(it)])
        /\ it[Len(it)].outcome.kind = "raise"

RaisedBy(n) == IterationCalls(n)[Len(IterationCalls(n))].outcome.error

C21_WriteErrorChain ==
    \A n \in 1..Len(results) :
        WriteRaised(n) =>
            /\ Returned(results[n])
            /\ ~results[n].updated
            /\ results[n].error = Msg(MessageChain(RaisedBy(n)))


\* The chain holds for the instances of Error; a raised value of another
\* class yields 'Unknown error' whatever it carries.
C21_WriteErrorOfInstance ==
    \A n \in 1..Len(results) :
        WriteRaised(n) =>
            /\ Returned(results[n])
            /\ ~results[n].updated
            /\ results[n].error =
                  Msg(IF RaisedBy(n).isError
                      THEN MessageChain(RaisedBy(n))
                      ELSE "Unknown error")

\* An operation-level write raises an Error whose payload has an empty
\* nested message and a top-level message: the result reports the latter.
C21_Witness ==
    /\ Len(results) = 1
    /\ calls[UpdateIndex(1)].op = "updateOperationPolicy"
    /\ WriteRaised(1)
    /\ RaisedBy(1).isError
    /\ "response" \in DOMAIN RaisedBy(1)
    /\ "data" \in DOMAIN RaisedBy(1).response
    /\ "error" \in DOMAIN RaisedBy(1).response.data
    /\ "message" \in DOMAIN RaisedBy(1).response.data.error
    /\ RaisedBy(1).response.data.error.message = ""
    /\ results[1].error = Msg("top")


(***************************************************************************)
(* C22.  Per-document terminal outcome: for each document of the validated *)
(* list run() calls the update operation of the document's scope           *)
(* (updateApiPolicy for 'api', updateOperationPolicy with the document's   *)
(* operationId for 'operation') with the document's content unchanged; the *)
(* write below it is called at most once per document, for that document's *)
(* target and content, and no document is gone back to after a rejection   *)
(* or a failure.                                                           *)
(***************************************************************************)
\* The update call of iteration n is the one for document n.
MatchesScope(n) ==
    LET c == UpdateCalls[n]
        doc == policies[n]
    IN  /\ c.apiId = doc.apiId
        /\ c.content = doc.content
        /\ IF doc.scope = "api"
           THEN c.op = "updateApiPolicy"
           ELSE /\ c.op = "updateOperationPolicy"
                /\ c.operationId = doc.operationId

\* The positions of the writes among the calls of iteration n.
WritesOf(n) ==
    {q \in 1..Len(IterationCalls(n)) : IsWriteCall(IterationCalls(n)[q])}

WriteIsFor(w, doc) ==
    /\ w.apiId = doc.apiId
    /\ w.value = doc.content
    /\ IF doc.scope = "api"
       THEN w.op = "apiPolicy.createOrUpdate"
       ELSE /\ w.op = "apiOperationPolicy.createOrUpdate"
            /\ w.operationId = doc.operationId

\* The write at position q of calls is the only one since the update call
\* before it, and it is the write of that call's document.
OnlyWriteOfItsDocument(q) ==
    LET before == {j \in 1..(q - 1) : IsUpdateCall(calls[j])}
        n == Cardinality(before)
    IN  /\ n \in 1..Len(policies)
        /\ WriteIsFor(calls[q], policies[n])
        /\ \A j \in 1..(q - 1) :
              IsWriteCall(calls[j]) => \E m \in before : j < m

C22_TerminalOutcome ==
    LoopEntered =>
        /\ Len(UpdateCalls) = Len(results)
        /\ Len(results) <= Len(policies)
        /\ \A n \in 1..Len(results) : MatchesScope(n)
        /\ \A q \in 1..Len(calls) :
              IsWriteCall(calls[q]) => OnlyWriteOfItsDocument(q)

\* A finished run over two documents: the write of the first raised, and
\* the second iteration went on to the second document's own write.
C22_Witness ==
    /\ pc = "done"
    /\ Len(policies) = 2
    /\ Len(results) = 2
    /\ policies[1].scope = "operation"
    /\ WritesOf(1) # {}
    /\ Returned(results[1]) /\ ~results[1].updated
    /\ WritesOf(2) # {}
    /\ Applied(results[2])


(***************************************************************************)
(* run() between its awaits.  Every await of main.ts, azure-client.ts and  *)
(* policy-discovery.ts is two events in calls: the I/O operation is        *)
(* issued, and it settles; an action is the code that runs from one        *)
(* settlement to the next await.  pc names the await run() is suspended    *)
(* at, and the last event names the operation it waits for.  A listed file *)
(* is given by the document that scanning it yields.                       *)
(***************************************************************************)
\* within: the function that awaits; at: the position of its loop.
Issued(op, within, at) ==
    [ev |-> "issue", op |-> op, within |-> within, at |-> at]

Settled(issue) == [issue EXCEPT !.ev = "settle"]

\* The operation run() is suspended on.
Awaited == calls[Len(calls)]

\* availableApis.slice(0, 3) of a listing that did not fail.
ShownApis ==
    LET apis == listApis(FALSE).value
    IN  SubSeq(apis, 1,
               IF Len(apis) < DebugApiLimit THEN Len(apis) ELSE DebugApiLimit)

\* The files a manifest can name: one per target.
ManifestLists ==
    { docs \in DocLists :
        \A i, j \in 1..Len(docs) :
            (i # j) => (docs[i].scope # docs[j].scope) }

\* A loop that starts the next document's update while the write of this
\* one is still awaited.
BeginUpdateEarly(n, events) ==
    /\ calls' = calls \o <<Issued("listApis", "update", n)>> \o events
    /\ pc' = "awaitListApisUpdate"

\* client.updateApiPolicy / updateOperationPolicy is entered for document
\* n: it awaits listApis first.
BeginUpdate(n, events) ==
    /\ calls' = calls \o events \o <<Issued("listApis", "update", n)>>
    /\ pc' = "awaitListApisUpdate"

\* discoverPolicies is entered: the manifest is read, or the tree is
\* enumerated.
BeginDiscovery(events) ==
    IF "policyManifestPath" \in DOMAIN config
    THEN /\ calls' = calls \o events \o <<Issued("readFile", "loadPolicyManifest", 0)>>
         /\ pc' = "awaitManifest"
    ELSE /\ calls' = calls \o events \o <<Issued("glob", "discoverPolicies", 0)>>
         /\ pc' = "awaitGlob"

\* discoverPolicies returned docs: the early return, the validator, and
\* the first iteration of the loop up to its first await.
EndDiscovery(docs, events) ==
    /\ policies' = docs
    /\ IF Len(docs) = 0
       THEN /\ calls' = calls \o events
            /\ log' = Append(log,
                        [level |-> "warning",
                         text |-> <<"No policy files found to update">>])
            /\ outputs' = Append(outputs, "")
            /\ pc' = "done"
            /\ UNCHANGED << idx, failures >>
       ELSE IF ~validatePolicies(docs)
       THEN /\ calls' = calls \o events
            /\ Fail([isError |-> TRUE, message |-> "Policy validation failed"])
            /\ UNCHANGED << idx, log >>
       ELSE /\ BeginUpdate(1, events)
            /\ idx' = 1
            /\ UNCHANGED << outputs, failures, log >>

\* The files are read one after the other, from the first on.
BeginReads(files, events) ==
    IF Len(files) = 0
    THEN EndDiscovery(<<>>, events) /\ disk' = [files |-> files]
    ELSE /\ calls' = calls \o events \o <<Issued("readFile", "discoverPolicies", 1)>>
         /\ pc' = "awaitRead"
         /\ disk' = [files |-> files]
         /\ UNCHANGED << policies, idx, outputs, failures, log >>

\* An iteration that marks the run failed when its document was not
\* updated.
EndUpdateMarksFailed(result, events) ==
    /\ results' = Append(results, result)
    /\ lastETag' = IF "updated" \in DOMAIN result
                   THEN NextETag(lastETag, result) ELSE lastETag
    /\ idx' = idx + 1
    /\ failures' = IF "updated" \in DOMAIN result /\ result.updated
                   THEN failures
                   ELSE Append(failures, "Failed to update policy")
    /\ IF idx = Len(policies)
       THEN /\ calls' = calls \o events
            /\ outputs' = Append(outputs, lastETag')
            /\ pc' = "done"
       ELSE /\ BeginUpdate(idx + 1, events)
            /\ outputs' = outputs

\* The iteration for document idx ends with result, or with what the
\* client call threw: the next document, or the end of the loop with
\* core.setOutput('etag', lastETag).
EndUpdate(result, events) ==
    /\ results' = Append(results, result)
    /\ lastETag' = IF "updated" \in DOMAIN result
                   THEN NextETag(lastETag, result) ELSE lastETag
    /\ idx' = idx + 1
    /\ failures' = failures
    /\ IF idx = Len(policies)
       THEN /\ calls' = calls \o events
            /\ outputs' = Append(outputs, lastETag')
            /\ pc' = "done"
       ELSE /\ BeginUpdate(idx + 1, events)
            /\ outputs' = outputs

AwaitInit ==
    /\ InitRun
    /\ path = NoPath
    /\ pathOut = NoPathOut
    /\ text = NoText
    /\ textOut = NoTextOut
    /\ disk = NoDisk

\* parseInputs, the constructor, and testConnection up to its await.
StartRun ==
    /\ pc = "start"
    /\ \E inputs \in InputSets :
          LET parsed == parseInputs(inputs)
          IN  IF parsed.threw
              THEN Fail(parsed.error) /\ UNCHANGED << config, calls >>
              ELSE /\ config' = parsed.value
                   /\ calls' = Append(calls,
                                      Issued("apiManagementService.get", "run", 0))
                   /\ pc' = "awaitGet"
                   /\ UNCHANGED << outputs, failures >>
    /\ UNCHANGED << remoteApis, remoteOps, remotePolicy, policies, idx,
                    lastETag, results, log, unitVars >>

\* apiManagementService.get settles; run() goes on to client.listApis().
GetSettles ==
    /\ pc = "awaitGet"
    /\ \E connectionTest \in BOOLEAN :
          IF ~connectionTest
          THEN /\ calls' = Append(calls, Settled(Awaited))
               /\ Fail([isError |-> TRUE,
                        message |->
                          "Failed to connect to Azure API Management service"])
          ELSE /\ calls' = calls \o << Settled(Awaited),
                                       Issued("listApis", "run", 0) >>
               /\ pc' = "awaitListApisMain"
               /\ UNCHANGED << outputs, failures >>
    /\ UNCHANGED << remoteApis, remoteOps, remotePolicy, config, policies,
                    idx, lastETag, results, log, unitVars >>

\* The listing of run() settles: the operations of the first API are asked
\* for, or discovery starts.
ListApisSettlesInRun ==
    /\ pc = "awaitListApisMain"
    /\ \E fails \in BOOLEAN :
          LET availableApis == listApis(fails).value
              settled == <<Settled(Awaited)>>
          IN  IF Len(availableApis) > 0
              THEN /\ calls' = calls \o settled
                                     \o <<Issued("listOperations", "run", 1)>>
                   /\ pc' = "awaitListOpsMain"
                   /\ log' = log
              ELSE /\ BeginDiscovery(settled)
                   /\ log' = Append(log,
                          [level |-> "warning",
                           text |-> <<"No APIs found in APIM service">>])
    /\ UNCHANGED << remoteApis, remoteOps, remotePolicy, config, policies,
                    idx, lastETag, results, outputs, failures, unitVars >>

\* listOperations of the debugging loop settles.
ListOperationsSettlesInRun ==
    /\ pc = "awaitListOpsMain"
    /\ LET settled == <<Settled(Awaited)>>
       IN  IF Awaited.at < Len(ShownApis)
           THEN /\ calls' = calls \o settled
                       \o <<Issued("listOperations", "run",
                                   Awaited.at + 1)>>
                /\ pc' = pc
           ELSE BeginDiscovery(settled)
    /\ UNCHANGED << remoteApis, remoteOps, remotePolicy, config, policies,
                    idx, lastETag, results, outputs, failures, log,
                    unitVars >>

\* The read of the manifest settles: no manifest, or the files it names.
ManifestSettles ==
    /\ pc = "awaitManifest"
    /\ LET settled == <<Settled(Awaited)>>
       IN  \/ /\ EndDiscovery(<<>>, settled)
              /\ disk' = [files |-> <<>>]
           \/ \E files \in ManifestLists : BeginReads(files, settled)
    /\ UNCHANGED << remoteApis, remoteOps, remotePolicy, config, lastETag,
                    results, path, pathOut, text, textOut >>

\* glob settles: it raised, or it lists the files.
GlobSettles ==
    /\ pc = "awaitGlob"
    /\ LET settled == <<Settled(Awaited)>>
       IN  \/ /\ EndDiscovery(<<>>, settled)
              /\ disk' = [files |-> <<>>]
           \/ \E files \in DocLists : BeginReads(files, settled)
    /\ UNCHANGED << remoteApis, remoteOps, remotePolicy, config, lastETag,
                    results, path, pathOut, text, textOut >>

\* The read of one policy file settles: the file is kept or skipped, and
\* the next file is read.
ReadSettles ==
    /\ pc = "awaitRead"
    /\ \E kept \in BOOLEAN :
          LET k == Awaited.at
              settled == <<Settled(Awaited)>>
              docs == IF kept THEN Append(policies, disk.files[k])
                      ELSE policies
          IN  IF k < Len(disk.files)
              THEN /\ calls' = calls \o settled
                                     \o <<Issued("readFile", "discoverPolicies", k + 1)>>
                   /\ policies' = docs
                   /\ pc' = pc
                   /\ UNCHANGED << idx, outputs, failures, log >>
              ELSE EndDiscovery(docs, settled)
    /\ UNCHANGED << remoteApis, remoteOps, remotePolicy, config, lastETag,
                    results, unitVars >>

\* listApis of an update settles: the rejection, the next listing, or the
\* write.
ListApisSettlesInUpdate ==
    /\ pc = "awaitListApisUpdate"
    /\ \E fails \in BOOLEAN :
          LET policy == policies[idx]
              apis == listApis(fails).value
              settled == <<Settled(Awaited)>>
          IN  IF ~Includes1(apis, policy.apiId)
              THEN EndUpdate(
                      IF policy.scope = "api"
                      THEN [apiId |-> policy.apiId, updated |-> FALSE,
                            error |-> ApiNotFound(policy.apiId, apis)]
                      ELSE [apiId |-> policy.apiId,
                            operationId |-> policy.operationId,
                            updated |-> FALSE,
                            error |-> ApiNotFound(policy.apiId, apis)],
                      settled)
              ELSE /\ IF policy.scope = "api"
                      THEN /\ calls' = calls \o settled
                                  \o <<Issued("apiPolicy.createOrUpdate", "update",
                                           idx)>>
                           /\ pc' = "awaitWrite"
                      ELSE /\ calls' = calls \o settled
                                  \o <<Issued("listOperations", "update", idx)>>
                           /\ pc' = "awaitListOpsUpdate"
                   /\ UNCHANGED << results, lastETag, idx, outputs, failures >>
    /\ UNCHANGED << remoteApis, remoteOps, remotePolicy, config, policies,
                    log, unitVars >>

\* listOperations of an update settles: the rejection, or the write.
ListOperationsSettlesInUpdate ==
    /\ pc = "awaitListOpsUpdate"
    /\ \E fails \in BOOLEAN :
          LET policy == policies[idx]
              operations == listOperations(policy.apiId, fails).value
              settled == <<Settled(Awaited)>>
          IN  IF ~Includes1(operations, policy.operationId)
              THEN EndUpdate(
                      [apiId |-> policy.apiId,
                       operationId |-> policy.operationId,
                       updated |-> FALSE,
                       error |-> OperationNotFound(
                           policy.apiId, policy.operationId, operations)],
                      settled)
              ELSE /\ calls' = calls \o settled
                        \o <<Issued("apiOperationPolicy.createOrUpdate", "update",
                                   idx)>>
                   /\ pc' = "awaitWrite"
                   /\ UNCHANGED << results, lastETag, idx, outputs, failures >>
    /\ UNCHANGED << remoteApis, remoteOps, remotePolicy, config, policies,
                    log, unitVars >>

\* createOrUpdate settles: the result of the iteration.
WriteSettles ==
    /\ pc = "awaitWrite"
    /\ \E write \in LoopWriteOutcomes :
          LET policy == policies[idx]
              direct ==
                  IF policy.scope = "api"
                  THEN updateApiPolicyDirect(policy.apiId, policy.content,
                                             write)
                  ELSE updateOperationPolicyDirect(
                           policy.apiId, policy.operationId, policy.content,
                           write)
          IN  /\ remotePolicy' =
                     [target \in Targets |->
                         IF target \in direct.written
                         THEN policy.content ELSE remotePolicy[target]]
              /\ EndUpdate(direct.result, <<Settled(Awaited)>>)
    /\ UNCHANGED << remoteApis, remoteOps, config, policies, log, unitVars >>

\* The client call of the iteration rejects instead of returning: the
\* catch block of the loop logs it and the loop goes on.
ClientCallRejects ==
    /\ pc \in {"awaitListApisUpdate", "awaitListOpsUpdate", "awaitWrite"}
    /\ LET raised == [isError |-> TRUE, message |-> "boom"]
       IN  /\ log' = Append(log,
                       [level |-> "error",
                        text |-> <<"Error processing policy">>,
                        filePath |-> policies[idx].filePath,
                        error |-> Msg(ErrorMessageOf(raised))])
           /\ EndUpdate([threw |-> raised], <<Settled(Awaited)>>)
    /\ UNCHANGED << remoteApis, remoteOps, remotePolicy, config, policies,
                    unitVars >>

AwaitNext ==
    \/ StartRun
    \/ GetSettles
    \/ ListApisSettlesInRun
    \/ ListOperationsSettlesInRun
    \/ ManifestSettles
    \/ GlobSettles
    \/ ReadSettles
    \/ ListApisSettlesInUpdate
    \/ ListOperationsSettlesInUpdate
    \/ WriteSettles
    \/ ClientCallRejects

AwaitSpec == AwaitInit /\ [][AwaitNext]_vars

\* run() with the assumption its awaits rest on: an operation that was
\* issued settles.
AwaitLiveSpec == AwaitSpec /\ WF_vars(AwaitNext)


(***************************************************************************)
(* C23.  Strictly sequential execution: at every point of a run at most    *)
(* one I/O operation (file read, directory enumeration, remote listing,    *)
(* remote write) is in flight; each one settles before the next is issued; *)
(* and the updates are issued in the order of the document list.           *)
(***************************************************************************)
\* The operations issued and not yet settled after the first k events.
InFlight(k) ==
    Cardinality({i \in 1..k : calls[i].ev = "issue"})
        - Cardinality({i \in 1..k : calls[i].ev = "settle"})

\* The documents whose update was entered, in the order of entering.
UpdatesEntered ==
    LET entering(e) == /\ e.ev = "issue"
                       /\ e.within = "update"
                       /\ e.op = "listApis"
        entered == SelectSeq(calls, entering)
    IN  [k \in 1..Len(entered) |-> entered[k].at]

C23_OneInFlight ==
    /\ InFlight(Len(calls)) \in {0, 1}
    /\ \A k \in 1..Len(calls) :
          /\ calls[k].ev = IF k % 2 = 1 THEN "issue" ELSE "settle"
          /\ calls[k].ev = "settle" =>
                calls[k - 1] = [calls[k] EXCEPT !.ev = "issue"]
    /\ LET ofUpdates == SelectSeq(calls, LAMBDA e : e.within = "update")
       IN  \A k \in 2..Len(ofUpdates) :
               ofUpdates[k - 1].at <= ofUpdates[k].at
    /\ UpdatesEntered = [k \in 1..Len(UpdatesEntered) |-> k]
    /\ Len(UpdatesEntered) \in {Len(results), Len(results) + 1}
    /\ (pc = "done" /\ LoopEntered) => Len(UpdatesEntered) = Len(policies)

\* run() is suspended on the write of the second document, after a
\* directory enumeration, file reads and the listings settled.
C23_Witness ==
    /\ pc = "awaitWrite"
    /\ idx = 2
    /\ InFlight(Len(calls)) = 1
    /\ Awaited.op \in WriteOps
    /\ \E k \in 1..Len(calls) : calls[k].op = "glob"
    /\ \E k \in 1..Len(calls) :
          calls[k].op = "listOperations" /\ calls[k].within = "run"


(***************************************************************************)
(* C24, as stated.  The apiId of every document of convention discovery is *)
(* the directory the grammar designates: for an api-scope document, the    *)
(* segment just before the final api.xml; for an operation-scope document, *)
(* the segment just before the operations directory that holds the file;   *)
(* for every enumerated path, paths with several policies segments or with *)
(* a segment that merely ends in policies included.  The path              *)
(* policies/xpolicies/a/api.xml refutes it: the document is emitted for    *)
(* the API xpolicies, the segment after the first text 'policies/'.        *)
(***************************************************************************)
\* The segments of a path written with forward slashes.
RECURSIVE SegmentsOf(_)
SegmentsOf(s) ==
    IF \A k \in 1..Len(s) : s[k] # "/" THEN <<s>>
    ELSE LET cut == CHOOSE k \in 1..Len(s) :
                        s[k] = "/" /\ \A m \in 1..(k - 1) : s[m] # "/"
         IN  <<SubSeq(s, 1, cut - 1)>> \o SegmentsOf(From(s, cut + 1))

DesignatedApiId(doc) ==
    LET segs == SegmentsOf(doc.filePath)
    IN  IF doc.scope = "api" THEN segs[Len(segs) - 1]
        ELSE segs[Len(segs) - 2]

C24_DesignatedApiId ==
    (DiscoveryReturned /\ Enumerated) =>
        \A k \in 1..Len(policies) :
            policies[k].apiId = DesignatedApiId(policies[k])


(***************************************************************************)
(* C25.  validatePolicies does not stop at the first violation of a        *)
(* non-empty list: it logs one invalid-content error per document whose    *)
(* content fails validateXmlContent, one multiple-API-policies warning per *)
(* apiId with more than one api-scope document, and one summary line per   *)
(* apiId of the list; and it leaves the document list as it was.           *)
(***************************************************************************)
\* The lines of the report of a level about a subject.
LinesAbout(level, subject) ==
    Cardinality({q \in 1..Len(log) :
                    log[q].level = level /\ log[q].about = subject})

ApiDocumentsOf(apiId) ==
    {k \in 1..Len(policies) :
        policies[k].apiId = apiId /\ policies[k].scope = "api"}

InvalidDocuments ==
    {k \in 1..Len(policies) : ~validateXmlContent(policies[k].content)}

ReportIsComplete ==
    /\ Cardinality({q \in 1..Len(log) : log[q].level = "error"})
           = Cardinality(InvalidDocuments)
    /\ \A k \in InvalidDocuments :
           LinesAbout("error", policies[k].filePath)
               = Cardinality({m \in InvalidDocuments :
                      policies[m].filePath = policies[k].filePath})
    /\ \A apiId \in {"api1", "api2"} :
           LET listed == \E k \in 1..Len(policies) :
                             policies[k].apiId = apiId
           IN  /\ LinesAbout("info", apiId) = IF listed THEN 1 ELSE 0
               /\ LinesAbout("warning", apiId) =
                      IF Cardinality(ApiDocumentsOf(apiId)) > 1
                      THEN 1 ELSE 0

C25_NoShortCircuit ==
    (pc = "validated" /\ Len(policies) > 0) =>
        /\ policies = calls[1].policies
        /\ ReportIsComplete

\* Three documents, two violations of two kinds: the first document is
\* invalid, and the API has two API policies; both are reported, after
\* each other.
C25_Witness ==
    /\ pc = "validated"
    /\ Len(policies) = 3
    /\ \A k \in 1..3 : policies[k].apiId = "api1"
    /\ ~validateXmlContent(policies[1].content)
    /\ validateXmlContent(policies[2].content)
    /\ policies[2].scope = "api"
    /\ policies[3].scope = "api"
    /\ Len(log) = 3
    /\ log[1].level = "error"
    /\ log[3].level = "warning"


(***************************************************************************)
(* C26.  A document whose update fails never marks the run failed: the run *)
(* is marked failed only where an input is missing, the connection test    *)
(* fails or validation fails; once the update loop has started the run is  *)
(* never marked failed, it ends, and when it has ended the etag was        *)
(* published exactly once, as '' if no document was updated, whether the   *)
(* updates were rejected, failed or threw.                                 *)
(***************************************************************************)
NoneApplied == \A n \in 1..Len(results) : ~Applied(results[n])

C26_ItemFailuresNotFatal ==
    /\ [](failures # <<>> =>
             /\ ~LoopEntered
             /\ results = <<>>
             /\ pc = "done"
             /\ Len(failures) = 1
             /\ failures[1] \in AbortMessages)
    /\ []((LoopEntered /\ pc = "done") =>
             /\ Len(results) = Len(policies)
             /\ Len(outputs) = 1
             /\ NoneApplied => outputs = <<"">>)
    /\ []((LoopEntered /\ pc # "done") => outputs = <<>>)
    /\ (LoopEntered ~> pc = "done")

\* A finished run of two documents: the first was not updated, the update
\* of the second threw.
C26_Witness ==
    /\ pc = "done"
    /\ Len(policies) = 2
    /\ Len(results) = 2
    /\ Returned(results[1]) /\ ~results[1].updated
    /\ ~Returned(results[2])
    /\ failures = <<>>
    /\ outputs = <<"">>


(***************************************************************************)
(* C27.  A listing that fails is taken for a missing resource: listApis    *)
(* and listOperations always return, the empty sequence when they fail; so *)
(* when the API listing fails, updateApiPolicy and updateOperationPolicy   *)
(* return updated = false with the API-not-found error over an empty list  *)
(* and write nothing, although the service holds the API; and when the     *)
(* operation listing fails, an operation-level update is rejected the same *)
(* way although the API holds the operation.                               *)
(***************************************************************************)
Holds(ids, id) == \E k \in 1..Len(ids) : ids[k] = id

\* The API listing of iteration n came back empty from a service that
\* holds the API: it failed.
ApiListingFailed(n) ==
    /\ Len(IterationCalls(n)) >= 1
    /\ IterationCalls(n)[1].op = "listApis"
    /\ IterationCalls(n)[1].returned = <<>>
    /\ Holds(remoteApis, calls[UpdateIndex(n)].apiId)

OperationListingFailed(n) ==
    /\ Len(IterationCalls(n)) >= 2
    /\ IterationCalls(n)[2].op = "listOperations"
    /\ IterationCalls(n)[2].returned = <<>>
    /\ Holds(remoteOps[calls[UpdateIndex(n)].apiId],
             calls[UpdateIndex(n)].operationId)

NothingWritten == \A target \in Targets : remotePolicy[target] = NoPolicy

C27_ListingFailureIsNotFound ==
    /\ \A k \in 1..Len(calls) :
          calls[k].op \in {"listApis", "listOperations"} =>
              "returned" \in DOMAIN calls[k]
    /\ \A n \in 1..Len(results) :
          LET c == calls[UpdateIndex(n)]
              r == results[n]
          IN  /\ ApiListingFailed(n) =>
                    /\ Returned(r) /\ ~r.updated
                    /\ r.error = <<"API '", c.apiId,
                                   "' not found. Available APIs: ">>
                    /\ Len(IterationCalls(n)) = 1
                    /\ NothingWritten
              /\ OperationListingFailed(n) =>
                    /\ Returned(r) /\ ~r.updated
                    /\ r.error = <<"Operation '", c.operationId,
                                   "' not found in API '", c.apiId,
                                   "'. Available operations: ">>
                    /\ Len(IterationCalls(n)) = 2
                    /\ NothingWritten

\* The operation listing fails for an operation the API holds.
C27_Witness ==
    /\ Len(results) = 1
    /\ calls[UpdateIndex(1)].op = "updateOperationPolicy"
    /\ OperationListingFailed(1)
    /\ ~results[1].updated


(***************************************************************************)
(* C28.  The manifest strategy never yields a conflicting desired state:   *)
(* for every parsed manifest the documents it returns hold at most one     *)
(* api-scope document per apiId and at most one operation-scope document   *)
(* per apiId and operationId, and validatePolicies answers true on every   *)
(* non-empty list it returns.                                              *)
(***************************************************************************)
SameTarget(a, b) ==
    /\ a.apiId = b.apiId
    /\ a.scope = b.scope
    /\ a.scope = "operation" => a.operationId = b.operationId

C28_ManifestNeverConflicts ==
    (DiscoveryReturned /\ ~ByConvention) =>
        /\ \A i, j \in 1..Len(policies) :
              (i # j) => ~SameTarget(policies[i], policies[j])
        /\ Len(policies) > 0 => validatePolicies(policies)

\* A manifest of two entries, the documents of both returned: two API
\* policies, of two APIs, among three documents or more.
C28_Witness ==
    /\ DiscoveryReturned
    /\ ManifestLoaded
    /\ Len(disk.load.policies) = 2
    /\ Len(policies) >= 3
    /\ Cardinality({k \in 1..Len(policies) : policies[k].scope = "api"}) = 2
    /\ validatePolicies(policies)


(***************************************************************************)
(* C29, as stated.  Two or more operation-scope documents of one apiId and *)
(* operationId, their content valid, pass validatePolicies; run() then     *)
(* writes each of them in list order, and the operation policy of the      *)
(* service ends up with the content of the last of them.  A run in which   *)
(* the write of the last one raises, or in which its update is rejected,   *)
(* refutes the last part: the service keeps what an earlier one wrote.     *)
(***************************************************************************)
\* The documents of the list for the operation of document k.
DocumentsFor(k) ==
    {m \in 1..Len(policies) :
        /\ policies[m].scope = "operation"
        /\ policies[m].apiId = policies[k].apiId
        /\ policies[m].operationId = policies[k].operationId}

Duplicated(k) ==
    policies[k].scope = "operation" /\ Cardinality(DocumentsFor(k)) >= 2

Last(S) == CHOOSE k \in S : \A m \in S : m <= k

\* The validator let the duplicates through, and the loop called the
\* update of each document of the list, in list order.
DuplicatesAccepted ==
    /\ \A q \in 1..Len(calls) :
          (/\ calls[q].op = "validatePolicies"
           /\ \E k \in 1..Len(policies) : Duplicated(k)
           /\ ~TwoApiPolicies(policies))
              => calls[q].returned
    /\ (pc = "done" /\ LoopEntered) =>
          /\ Len(UpdateCalls) = Len(policies)
          /\ \A k \in 1..Len(policies) :
                Duplicated(k) =>
                    /\ UpdateCalls[k].op = "updateOperationPolicy"
                    /\ UpdateCalls[k].operationId = policies[k].operationId
                    /\ UpdateCalls[k].content = policies[k].content

C29_LastDuplicateWins ==
    /\ DuplicatesAccepted
    /\ (pc = "done" /\ LoopEntered) =>
          \A k \in 1..Len(policies) :
              Duplicated(k) =>
                  remotePolicy[<<policies[k].apiId, policies[k].operationId>>]
                      = policies[Last(DocumentsFor(k))].content

\* The service ends up with the content of the last of them whose update
\* was applied, and with what it had if none was.
C29_LastAppliedDuplicateWins ==
    /\ DuplicatesAccepted
    /\ (pc = "done" /\ LoopEntered) =>
          \A k \in 1..Len(policies) :
              Duplicated(k) =>
                  LET applied == {m \in DocumentsFor(k) : Applied(results[m])}
                  IN  remotePolicy[<<policies[k].apiId,
                                     policies[k].operationId>>]
                          = IF applied = {} THEN NoPolicy
                            ELSE policies[Last(applied)].content

\* Two documents of one operation with different contents, both applied:
\* the service holds the second content.
C29_Witness ==
    /\ pc = "done"
    /\ Len(policies) = 2
    /\ Duplicated(1)
    /\ policies[1].content # policies[2].content
    /\ Applied(results[1])
    /\ Applied(results[2])
    /\ remotePolicy[<<policies[1].apiId, policies[1].operationId>>]
           = policies[2].content


(***************************************************************************)
(* C30.  The operation-level classifier and the extractor agree on every   *)
(* path: isOperationLevelPolicy(p) is true exactly when                    *)
(* extractOperationIdFromPath(p) answers a non-empty operationId; so the   *)
(* loop body of convention discovery never takes the 'Cannot extract       *)
(* operation ID' branch, and a candidate it classifies as operation-level  *)
(* is emitted with a non-empty operationId.                                *)
(***************************************************************************)
\* What the loop body of convention discovery makes of the path when the
\* file is read and its content is valid.
Scanned == scanFile(PathText(path), [kind |-> "ok", content |-> PolicyXmlA])

====
